---------------------------- MODULE Spec2Model ----------------------------
(***************************************************************************)
(* A model of the RTMP protocol stack of go-oryx-lib (package rtmp): the   *)
(* chunk writer (writeMessage), the chunk reader (ReadMessage and its      *)
(* helpers), the packet decoder (DecodeMessage, parseAMFObject) and the    *)
(* transaction table (WritePacket, onPacketWriten), together with the part *)
(* of package amf0 the command packets are decoded with.                   *)
(*                                                                         *)
(* Bytes are the integers 0..255 and a byte slice is a sequence of them.   *)
(* An amf0.String is the sequence of its bytes and an amf0.Number is the   *)
(* sequence of the 8 bytes of its IEEE 754 bit pattern (math.Float64bits   *)
(* is a bijection on the patterns used here).  Integers are kept within   *)
(* 32 bits signed: a uint32 of 2^31 or more is held as its value minus     *)
(* 2^32 (see U32), and where the code computes above that (the uint64      *)
(* timestamp before it is masked) the model computes the masked value      *)
(* without leaving the range.                                              *)
(***************************************************************************)
EXTENDS Integers, Sequences, FiniteSets, TLC

VARIABLES
    rbuf,          \* bytes the peer has sent and v.r has not consumed yet
    closed,        \* the peer has closed the transport: a short read fails
    wbuf,          \* bytes the last flush of v.w handed to the transport
    chunks,        \* v.input.chunks: cid -> chunkStream
    inChunkSize,   \* v.input.opt.chunkSize
    outChunkSize,  \* v.output.opt.chunkSize
    transactions,  \* v.input.transactions: transaction id -> command name
    crashed,       \* a goroutine using v has panicked
    ret,           \* what the last call on v returned, and what it was given
    sent,          \* the messages the peer has written and v has not read yet
    peerChunkSize, \* the chunk size the peer splits its messages with
    nops,          \* number of peer writes so far (bounds the model)
    hs,            \* the client's handshake: its position and what it holds
    pending,       \* what the peer is still to write, unit by unit
    amf,           \* an amf0 value, the calls that built it and its bytes
    flv,           \* an FLV file, its muxer and its demuxer
    call,          \* a function of a byte slice: its argument and result
    krps           \* a krps, its source and its clock

vars == <<rbuf, closed, wbuf, chunks, inChunkSize, outChunkSize,
          transactions, crashed, ret, sent, peerChunkSize, nops,
          hs, pending, amf, flv, call, krps>>

\* what a Protocol does not touch: the handshake that came before it, the
\* peer's plans, and the values of packages amf0, flv and kxps
elsewhere == <<hs, pending, amf, flv, call, krps>>

---------------------------------------------------------------------------
(* Program constants.                                                      *)

extendedTimestamp == 16777215
defaultChunkSize == 128

formatType0 == 0
formatType1 == 1
formatType2 == 2
formatType3 == 3

messageHeaderSizes == <<11, 7, 3, 0>>

MessageTypeSetChunkSize == 1
MessageTypeUserControl == 4
MessageTypeWindowAcknowledgementSize == 5
MessageTypeSetPeerBandwidth == 6
\* 0x08 + iota, and iota is 7 on that line of the const block
MessageTypeAudio == 15
MessageTypeAMF3Command == 17
MessageTypeAMF0Command == 20
MessageTypeAMF0Data == 18
MessageTypeAMF3Data == 15

chunkIDProtocolControl == 2
chunkIDOverConnection == 3

\* "connect", "_result", "_error" as bytes
commandConnect == <<99, 111, 110, 110, 101, 99, 116>>
commandResult == <<95, 114, 101, 115, 117, 108, 116>>
commandError == <<95, 101, 114, 114, 111, 114>>

markerNumber == 0
markerBoolean == 1
markerString == 2
markerObject == 3
markerNull == 5
markerUndefined == 6
markerEcmaArray == 8
markerObjectEnd == 9
markerStrictArray == 10

---------------------------------------------------------------------------
(* Bytes and fixed-width integers.                                         *)

Min(a, b) == IF a < b THEN a ELSE b

\* byte(x) of a non-negative x
Byte(x) == x % 256

\* x << k computed in uint8, as Go does for a byte operand: the bits shifted
\* out of the 8 are lost
ShlU8(x, k) == (x * (2 ^ k)) % 256

\* the bytes p[from+1 .. from+n] of p (Go's p[from:from+n])
Slice(p, from, n) == SubSeq(p, from + 1, from + n)

\* p[from:]
Drop(p, from) == SubSeq(p, from + 1, Len(p))

\* The uint32 with the bytes b3 b2 b1 b0, most significant first.  A value of
\* 2^31 or more is held as the value minus 2^32, which has the same 32 bits:
\* equality and the bytes of the value are those of the uint32.
U32(b3, b2, b1, b0) ==
    (IF b3 < 128 THEN b3 ELSE b3 - 256) * 16777216
        + b2 * 65536 + b1 * 256 + b0

\* x & 0x7fffffff of a uint32 x held as U32 holds it
Mask31(x) == IF x < 0 THEN (x + 2147483647) + 1 ELSE x

\* binary.BigEndian.Uint32 of the 4 bytes at p[from:]
BigEndianUint32(p, from) ==
    U32(p[from + 1], p[from + 2], p[from + 3], p[from + 4])

\* binary.BigEndian.PutUint32
BigEndianPutUint32(x) ==
    <<Byte(x \div 16777216), Byte(x \div 65536), Byte(x \div 256), Byte(x)>>

---------------------------------------------------------------------------
(* Message, MessageHeader, chunkStream.                                    *)

Nil == [isNil |-> TRUE]

MessageHeader(delta, length, type, sid, cid, ts) ==
    [timestampDelta |-> delta, payloadLength |-> length, messageType |-> type,
     streamID |-> sid, betterCid |-> cid, timestamp |-> ts]

\* The zero MessageHeader.
ZeroHeader == MessageHeader(0, 0, 0, 0, 0, 0)

\* A Message is its MessageHeader's fields and the payload.
WithPayload(h, p) ==
    [timestampDelta |-> h.timestampDelta, payloadLength |-> h.payloadLength,
     messageType |-> h.messageType, streamID |-> h.streamID,
     betterCid |-> h.betterCid, timestamp |-> h.timestamp, payload |-> p]

HeaderOf(m) ==
    MessageHeader(m.timestampDelta, m.payloadLength, m.messageType,
                  m.streamID, m.betterCid, m.timestamp)

NewMessage == WithPayload(ZeroHeader, <<>>)

newChunkStream ==
    [format |-> 0, cid |-> 0, header |-> ZeroHeader, message |-> Nil,
     count |-> 0, extendedTimestamp |-> FALSE]

---------------------------------------------------------------------------
(* The chunk writer.                                                       *)

\* The 4 bytes of the extended timestamp, or none.
ExtendedTimestampBytes(ts) ==
    IF ts >= extendedTimestamp THEN BigEndianPutUint32(ts) ELSE <<>>

\* A Type3 header that never carries the extended timestamp.
generateC3HeaderBasic(m) ==
    <<192 + (m.betterCid % 64)>>

generateC3Header(m) ==
    <<192 + (m.betterCid % 64)>> \o ExtendedTimestampBytes(m.timestamp)

generateC0Header(m) ==
    <<Byte(m.betterCid) % 64>>
    \o (IF m.timestamp < extendedTimestamp
        THEN <<Byte(m.timestamp \div 65536), Byte(m.timestamp \div 256),
               Byte(m.timestamp)>>
        ELSE <<255, 255, 255>>)
    \o <<Byte(m.payloadLength \div 65536), Byte(m.payloadLength \div 256),
         Byte(m.payloadLength)>>
    \o <<Byte(m.messageType)>>
    \o <<Byte(m.streamID), Byte(m.streamID \div 256),
         Byte(m.streamID \div 65536), Byte(m.streamID \div 16777216)>>
    \o ExtendedTimestampBytes(m.timestamp)

\* The loop of writeMessage: p is what is left of the payload, first tells
\* whether h is still nil.  Each round writes the header and at most
\* chunkSize bytes of payload.
RECURSIVE writeChunks(_, _, _, _, _)
writeChunks(c0h, c3h, p, first, chunkSize) ==
    IF Len(p) = 0
    THEN <<>>
    ELSE LET h == IF first THEN c0h ELSE c3h
             size == IF Len(p) > chunkSize THEN chunkSize ELSE Len(p)
         IN  h \o Slice(p, 0, size)
               \o writeChunks(c0h, c3h, Drop(p, size), FALSE, chunkSize)

\* A writer that puts the Type0 header before every chunk.
writeMessageAllType0(m, chunkSize) ==
    writeChunks(generateC0Header(m), generateC0Header(m), m.payload, TRUE,
                chunkSize)

\* The bytes writeMessage hands to v.w for message m.
writeMessage(m, chunkSize) ==
    writeChunks(generateC0Header(m), generateC3Header(m), m.payload, TRUE,
                chunkSize)

---------------------------------------------------------------------------
(* The chunk reader.  Each operator returns a record with err, "" for      *)
(* success and "short" for a read that met the end of the bytes at hand,   *)
(* and rest, the bytes it has not consumed.                                *)

\* uint32(p[0]<<16) | uint32(p[1])<<8 | uint32(p[2]) of the 3 bytes at
\* p[from:].  The first shift is done in uint8 before the conversion; the
\* three terms have no bit in common, so | is +.
ReadUint24(p, from) ==
    ShlU8(p[from + 1], 16) + p[from + 2] * 256 + p[from + 3]

\* uint32(p[0]) | uint32(p[1])<<8 | uint32(p[2])<<16 | uint32(p[3])<<24
ReadUint32LE(p, from) ==
    U32(p[from + 4], p[from + 3], p[from + 2], p[from + 1])

\* (a + b) & 0x7fffffff for a < 2^31 and b < 2^31
Add31(a, b) ==
    IF a > 2147483647 - b THEN (a - (2147483647 - b)) - 1 ELSE a + b

\* binary.Read of a big-endian uint32 at p[from:], then & 0x7fffffff
ReadUint32Masked(p, from) ==
    (p[from + 1] % 128) * 16777216 + p[from + 2] * 65536
        + p[from + 3] * 256 + p[from + 4]

readBasicHeader(buf) ==
    IF Len(buf) < 1
    THEN [err |-> "short", format |-> 0, cid |-> 0, rest |-> <<>>]
    ELSE LET t == buf[1]
             cid == t % 64
             format == (t \div 64) % 4
         IN  IF cid > 1
             THEN [err |-> "", format |-> format, cid |-> cid,
                   rest |-> Drop(buf, 1)]
             ELSE IF Len(buf) < 2
             THEN [err |-> "short", format |-> format, cid |-> cid,
                   rest |-> <<>>]
             ELSE LET cid2 == 64 + buf[2]
                  IN  IF cid2 = 1
                      THEN IF Len(buf) < 3
                           THEN [err |-> "short", format |-> format,
                                 cid |-> cid2, rest |-> <<>>]
                           ELSE [err |-> "", format |-> format,
                                 cid |-> cid2 + buf[3] * 256,
                                 rest |-> Drop(buf, 3)]
                      ELSE [err |-> "", format |-> format, cid |-> cid2,
                            rest |-> Drop(buf, 2)]

\* The part of readMessageHeader after the message header bytes p have been
\* read: the fields of the header, the extended timestamp, the copy of the
\* header into the message.  buf is what follows p.
parseMessageHeader(chunk, format, isFirstChunkOfMsg, p, buf) ==
    LET h0 == chunk.header
        \* fmt 0, 1, 2: the timestamp or delta field
        delta == IF format <= formatType2 THEN ReadUint24(p, 0)
                 ELSE h0.timestampDelta
        ext == IF format <= formatType2 THEN delta >= extendedTimestamp
               ELSE chunk.extendedTimestamp
        ts1 == IF format <= formatType2
               THEN IF delta >= extendedTimestamp
                    THEN IF format = formatType0 THEN delta
                         ELSE Add31(h0.timestamp, delta)
                    ELSE h0.timestamp
               ELSE IF isFirstChunkOfMsg /\ ~chunk.extendedTimestamp
                    THEN Add31(h0.timestamp, h0.timestampDelta)
                    ELSE h0.timestamp
        payloadLength == IF format <= formatType1 THEN ReadUint24(p, 3)
                         ELSE h0.payloadLength
        sizeChanged == format <= formatType1 /\ ~isFirstChunkOfMsg
                       /\ h0.payloadLength # payloadLength
        h1 == MessageHeader(
                  delta, payloadLength,
                  IF format <= formatType1 THEN p[7] ELSE h0.messageType,
                  IF format = formatType0 THEN ReadUint32LE(p, 7)
                  ELSE h0.streamID,
                  h0.betterCid, ts1)
    IN  IF sizeChanged
        THEN [err |-> "size",
              chunk |-> [chunk EXCEPT !.header.timestampDelta = delta,
                                      !.header.timestamp = ts1,
                                      !.extendedTimestamp = ext],
              rest |-> buf]
        ELSE IF ext /\ Len(buf) < 4
        THEN [err |-> "short",
              chunk |-> [chunk EXCEPT !.header = h1,
                                      !.extendedTimestamp = ext],
              rest |-> <<>>]
        ELSE LET h2 == IF ext
                       THEN [h1 EXCEPT !.timestamp = ReadUint32Masked(buf, 0)]
                       ELSE h1
             IN  [err |-> "",
                  chunk |-> [chunk EXCEPT
                                !.header = h2,
                                !.extendedTimestamp = ext,
                                !.message = WithPayload(h2, chunk.message.payload),
                                !.count = chunk.count + 1],
                  rest |-> IF ext THEN Drop(buf, 4) ELSE buf]

\* A reader that takes any fmt as the first chunk of a chunk stream.
readMessageHeaderAnyFirst(chunk, format, buf) ==
    LET isFirstChunkOfMsg == chunk.message = Nil
    IN  IF chunk.message # Nil /\ format = formatType0
        THEN [err |-> "exists", chunk |-> chunk, rest |-> buf]
        ELSE LET c1 == IF chunk.message = Nil
                       THEN [chunk EXCEPT !.message = NewMessage]
                       ELSE chunk
                 n == messageHeaderSizes[format + 1]
             IN  IF Len(buf) < n
                 THEN [err |-> "short", chunk |-> c1, rest |-> <<>>]
                 ELSE parseMessageHeader(c1, format, isFirstChunkOfMsg,
                                         Slice(buf, 0, n), Drop(buf, n))

readMessageHeader(chunk, format, buf) ==
    LET isFirstChunkOfMsg == chunk.message = Nil
    IN  IF chunk.count = 0 /\ format # formatType0
           /\ ~(chunk.cid = chunkIDProtocolControl /\ format = formatType1)
        THEN [err |-> "fresh", chunk |-> chunk, rest |-> buf]
        ELSE IF chunk.message # Nil /\ format = formatType0
        THEN [err |-> "exists", chunk |-> chunk, rest |-> buf]
        ELSE LET c1 == IF chunk.message = Nil
                       THEN [chunk EXCEPT !.message = NewMessage]
                       ELSE chunk
                 n == messageHeaderSizes[format + 1]
             IN  IF Len(buf) < n
                 THEN [err |-> "short", chunk |-> c1, rest |-> <<>>]
                 ELSE parseMessageHeader(c1, format, isFirstChunkOfMsg,
                                         Slice(buf, 0, n), Drop(buf, n))

\* m is the message handed out, Nil when the chunk did not complete one.
readMessagePayload(chunk, buf, chunkSize) ==
    IF chunk.message.payloadLength = 0
    THEN [err |-> "", m |-> chunk.message,
          chunk |-> [chunk EXCEPT !.message = Nil], rest |-> buf, size |-> 0]
    ELSE LET left == chunk.message.payloadLength - Len(chunk.message.payload)
             \* int(chunkSize) of a chunk size of 2^31 or more exceeds left
             chunkedPayloadSize == IF chunkSize >= 0 /\ left > chunkSize
                                   THEN chunkSize ELSE left
         IN  IF Len(buf) < chunkedPayloadSize
             THEN [err |-> "short", m |-> Nil, chunk |-> chunk,
                   rest |-> <<>>, size |-> chunkedPayloadSize]
             ELSE LET payload == chunk.message.payload
                                   \o Slice(buf, 0, chunkedPayloadSize)
                      msg == [chunk.message EXCEPT !.payload = payload]
                  IN  IF chunk.message.payloadLength = Len(payload)
                      THEN [err |-> "", m |-> msg,
                            chunk |-> [chunk EXCEPT !.message = Nil],
                            rest |-> Drop(buf, chunkedPayloadSize),
                            size |-> chunkedPayloadSize]
                      ELSE [err |-> "", m |-> Nil,
                            chunk |-> [chunk EXCEPT !.message = msg],
                            rest |-> Drop(buf, chunkedPayloadSize),
                            size |-> chunkedPayloadSize]

---------------------------------------------------------------------------
(* Package amf0.  A value is a record with its marker: a Number carries    *)
(* the 8 bytes of its bit pattern, a Boolean a BOOLEAN, a String its       *)
(* bytes, an Object, EcmaArray or StrictArray the sequence of its          *)
(* properties (records of key and value) and the latter two their count.   *)
(* An unmarshal operator returns err ("" for success, "panic" for a        *)
(* run-time panic) and the value v.                                        *)

NewNumber(bits) == [marker |-> markerNumber, v |-> bits]
NewBoolean(b) == [marker |-> markerBoolean, v |-> b]
NewString(s) == [marker |-> markerString, v |-> s]
NewObject == [marker |-> markerObject, properties |-> <<>>]
NewNull == [marker |-> markerNull]
NewUndefined == [marker |-> markerUndefined]
NewEcmaArray == [marker |-> markerEcmaArray, properties |-> <<>>, count |-> 0]
NewStrictArray ==
    [marker |-> markerStrictArray, properties |-> <<>>, count |-> 0]
objectEOF == [marker |-> markerObjectEnd]

\* 1.0 and 2.0 as float64 bits, big-endian
Number1 == <<63, 240, 0, 0, 0, 0, 0, 0>>
Number2 == <<64, 0, 0, 0, 0, 0, 0, 0>>

\* A Discovery that takes the marker of a movie clip for that of an Object.
DiscoveryLoose(p) ==
    IF Len(p) < 1 THEN [err |-> "data is not enough", a |-> Nil]
    ELSE LET m == p[1]
         IN  CASE m = markerNumber -> [err |-> "", a |-> NewNumber(<<0, 0, 0, 0, 0, 0, 0, 0>>)]
               [] m = markerBoolean -> [err |-> "", a |-> NewBoolean(FALSE)]
               [] m = markerString -> [err |-> "", a |-> NewString(<<>>)]
               [] m \in {markerObject, 4} -> [err |-> "", a |-> NewObject]
               [] m = markerNull -> [err |-> "", a |-> NewNull]
               [] m = markerUndefined -> [err |-> "", a |-> NewUndefined]
               [] m = markerEcmaArray -> [err |-> "", a |-> NewEcmaArray]
               [] m = markerObjectEnd -> [err |-> "", a |-> objectEOF]
               [] m = markerStrictArray -> [err |-> "", a |-> NewStrictArray]
               [] OTHER -> [err |-> "is illegal", a |-> Nil]

\* Discovery: the fresh value the first byte of p asks for.
Discovery(p) ==
    IF Len(p) < 1 THEN [err |-> "data is not enough", a |-> Nil]
    ELSE LET m == p[1]
         IN  CASE m = markerNumber -> [err |-> "", a |-> NewNumber(<<0, 0, 0, 0, 0, 0, 0, 0>>)]
               [] m = markerBoolean -> [err |-> "", a |-> NewBoolean(FALSE)]
               [] m = markerString -> [err |-> "", a |-> NewString(<<>>)]
               [] m = markerObject -> [err |-> "", a |-> NewObject]
               [] m = markerNull -> [err |-> "", a |-> NewNull]
               [] m = markerUndefined -> [err |-> "", a |-> NewUndefined]
               [] m = markerEcmaArray -> [err |-> "", a |-> NewEcmaArray]
               [] m = markerObjectEnd -> [err |-> "", a |-> objectEOF]
               [] m = markerStrictArray -> [err |-> "", a |-> NewStrictArray]
               [] m \in {7, 11, 12, 13, 15, 16, 17} ->
                      [err |-> "is not supported", a |-> Nil]
               [] OTHER -> [err |-> "is illegal", a |-> Nil]

\* amf0UTF8.UnmarshalBinary: v is the string
amf0UTF8Unmarshal(data) ==
    IF Len(data) < 2 THEN [err |-> "data is not enough", v |-> <<>>]
    ELSE LET size == data[1] * 256 + data[2]
         IN  IF Len(data) - 2 < size
             THEN [err |-> "data is not enough", v |-> <<>>]
             ELSE [err |-> "", v |-> Slice(data, 2, size)]

\* amf0UTF8.MarshalBinary; the length is converted to uint16
amf0UTF8Marshal(s) ==
    <<Byte(Len(s) \div 256), Byte(Len(s))>>
    \o (IF Len(s) % 65536 > 0 THEN s ELSE [i \in 1..Len(s) |-> 0])

\* A Set that puts the property it replaces at the end.
SetMoving(properties, key, value) ==
    Append(SelectSeq(properties, LAMBDA q : q.key # key),
           [key |-> key, value |-> value])

\* objectBase.Set
Set(properties, key, value) ==
    IF \E i \in 1..Len(properties) : properties[i].key = key
    THEN [i \in 1..Len(properties) |->
              IF properties[i].key = key
              THEN [key |-> key, value |-> value]
              ELSE properties[i]]
    ELSE Append(properties, [key |-> key, value |-> value])

RECURSIVE Size(_)
RECURSIVE objectBaseSize(_)
\* objectBase.Size
objectBaseSize(properties) ==
    IF Len(properties) = 0 THEN 0
    ELSE (2 + Len(Head(properties).key)) + Size(Head(properties).value)
           + objectBaseSize(Tail(properties))

\* Size() of each kind of value
Size(a) ==
    CASE a.marker = markerNumber -> 1 + 8
      [] a.marker = markerBoolean -> 2
      [] a.marker = markerString -> 1 + (2 + Len(a.v))
      [] a.marker = markerObject -> 1 + 3 + objectBaseSize(a.properties)
      [] a.marker = markerEcmaArray -> 1 + 4 + 3 + objectBaseSize(a.properties)
      [] a.marker = markerStrictArray -> 1 + 4 + objectBaseSize(a.properties)
      [] a.marker = markerObjectEnd -> 3
      [] OTHER -> 1

RECURSIVE UnmarshalBinary(_, _)
RECURSIVE objectBaseUnmarshal(_, _, _, _)

\* objectBase.unmarshal, properties being v.properties on entry
objectBaseUnmarshal(properties, p, eof, maxElems) ==
    IF Len(p) = 0 THEN [err |-> "", properties |-> properties]
    ELSE LET u == amf0UTF8Unmarshal(p)
         IN  IF u.err # ""
             THEN [err |-> "Unmarhsal prop name", properties |-> properties]
             ELSE LET p1 == Drop(p, 2 + Len(u.v))
                      d == Discovery(p1)
                  IN  IF d.err # ""
                      THEN [err |-> "Discover prop", properties |-> properties]
                      ELSE IF eof /\ 2 + Len(u.v) = 2
                              /\ d.a.marker = markerObjectEnd
                      THEN [err |-> "", properties |-> properties]
                      ELSE LET r == UnmarshalBinary(d.a, p1)
                           IN  IF r.err = "panic"
                               THEN [err |-> "panic", properties |-> properties]
                               ELSE IF r.err # ""
                               THEN [err |-> "Unmarshal prop",
                                     properties |-> properties]
                               ELSE LET ps == Set(properties, u.v, r.v)
                                    IN  IF Size(r.v) > Len(p1)
                                        THEN [err |-> "panic", properties |-> ps]
                                        ELSE IF maxElems > 0 /\ Len(ps) >= maxElems
                                        THEN [err |-> "", properties |-> ps]
                                        ELSE objectBaseUnmarshal(
                                                 ps, Drop(p1, Size(r.v)), eof,
                                                 maxElems)

\* a.UnmarshalBinary(data) for each kind of value a
UnmarshalBinary(a, data) ==
    CASE a.marker = markerNumber ->
           IF Len(data) < 9 THEN [err |-> "data is not enough", v |-> a]
           ELSE IF data[1] # markerNumber
           THEN [err |-> "marker is illegal", v |-> a]
           ELSE [err |-> "", v |-> NewNumber(Slice(data, 1, 8))]
      [] a.marker = markerBoolean ->
           IF Len(data) < 2 THEN [err |-> "data is not enough", v |-> a]
           ELSE IF data[1] # markerBoolean
           THEN [err |-> "marker is illegal", v |-> a]
           ELSE [err |-> "", v |-> NewBoolean(data[2] # 0)]
      [] a.marker = markerString ->
           IF Len(data) < 1 THEN [err |-> "data is not enough", v |-> a]
           ELSE IF data[1] # markerString
           THEN [err |-> "marker is illegal", v |-> a]
           ELSE LET sv == amf0UTF8Unmarshal(Drop(data, 1))
                IN  IF sv.err # "" THEN [err |-> sv.err, v |-> a]
                    ELSE [err |-> "", v |-> NewString(sv.v)]
      [] a.marker = markerObject ->
           IF Len(data) < 1 THEN [err |-> "data is not enough", v |-> a]
           ELSE IF data[1] # markerObject
           THEN [err |-> "marker is illegal", v |-> a]
           ELSE LET r == objectBaseUnmarshal(a.properties, Drop(data, 1),
                                             TRUE, -1)
                IN  [err |-> r.err,
                     v |-> [a EXCEPT !.properties = r.properties]]
      [] a.marker = markerEcmaArray ->
           IF Len(data) < 5 THEN [err |-> "data is not enough", v |-> a]
           ELSE IF data[1] # markerEcmaArray
           THEN [err |-> "marker is illegal", v |-> a]
           ELSE LET r == objectBaseUnmarshal(a.properties, Drop(data, 5),
                                             TRUE, -1)
                IN  [err |-> r.err,
                     v |-> [a EXCEPT !.properties = r.properties,
                                     !.count = BigEndianUint32(data, 1)]]
      [] a.marker = markerStrictArray ->
           IF Len(data) < 5 THEN [err |-> "data is not enough", v |-> a]
           ELSE IF data[1] # markerStrictArray
           THEN [err |-> "marker is illegal", v |-> a]
           ELSE LET r == objectBaseUnmarshal(a.properties, Drop(data, 5),
                                             FALSE, BigEndianUint32(data, 1))
                IN  [err |-> r.err,
                     v |-> [a EXCEPT !.properties = r.properties,
                                     !.count = BigEndianUint32(data, 1)]]
      \* objectEOF.UnmarshalBinary indexes its nil slice p
      [] a.marker = markerObjectEnd -> [err |-> "panic", v |-> a]
      \* singleMarkerObject
      [] OTHER ->
           IF Len(data) < 1 THEN [err |-> "data is not enough", v |-> a]
           ELSE IF data[1] # a.marker
           THEN [err |-> "marker is illegal", v |-> a]
           ELSE [err |-> "", v |-> a]

RECURSIVE MarshalBinary(_)
RECURSIVE objectBaseMarshal(_)
\* objectBase.marshal
objectBaseMarshal(properties) ==
    IF Len(properties) = 0 THEN <<>>
    ELSE amf0UTF8Marshal(Head(properties).key)
           \o MarshalBinary(Head(properties).value)
           \o objectBaseMarshal(Tail(properties))

\* a.MarshalBinary() for each kind of value a
MarshalBinary(a) ==
    CASE a.marker = markerNumber -> <<markerNumber>> \o a.v
      [] a.marker = markerBoolean ->
           <<markerBoolean, IF a.v THEN 1 ELSE 0>>
      [] a.marker = markerString ->
           <<markerString>> \o amf0UTF8Marshal(a.v)
      [] a.marker = markerObject ->
           <<markerObject>> \o objectBaseMarshal(a.properties) \o <<0, 0, 9>>
      [] a.marker = markerEcmaArray ->
           <<markerEcmaArray>> \o BigEndianPutUint32(a.count)
             \o objectBaseMarshal(a.properties) \o <<0, 0, 9>>
      [] a.marker = markerStrictArray ->
           <<markerStrictArray>> \o BigEndianPutUint32(a.count)
             \o objectBaseMarshal(a.properties)
      [] a.marker = markerObjectEnd -> <<0, 0, 9>>
      [] OTHER -> <<a.marker>>

---------------------------------------------------------------------------
(* Packets.  A packet is a record with its kind and its fields.            *)

NewConnectAppPacket ==
    [kind |-> "ConnectAppPacket", CommandName |-> commandConnect,
     TransactionID |-> Number1, CommandObject |-> NewObject, Args |-> Nil]

NewConnectAppResPacket(tid) ==
    [kind |-> "ConnectAppResPacket", CommandName |-> commandResult,
     TransactionID |-> tid, CommandObject |-> NewObject, Args |-> Nil]

NewSetChunkSize == [kind |-> "SetChunkSize", ChunkSize |-> defaultChunkSize]

NewWindowAcknowledgementSize ==
    [kind |-> "WindowAcknowledgementSize", AckSize |-> 0]

NewSetPeerBandwidth ==
    [kind |-> "SetPeerBandwidth", Bandwidth |-> 0, LimitType |-> 0]

IsCall(pkt) == pkt.kind \in {"ConnectAppPacket", "ConnectAppResPacket"}

\* pkt.BetterCid()
BetterCid(pkt) ==
    IF IsCall(pkt) THEN chunkIDOverConnection ELSE chunkIDProtocolControl

\* pkt.Type()
Type(pkt) ==
    CASE IsCall(pkt) -> MessageTypeAMF0Command
      [] pkt.kind = "SetChunkSize" -> MessageTypeSetChunkSize
      [] pkt.kind = "WindowAcknowledgementSize" ->
           MessageTypeWindowAcknowledgementSize
      [] OTHER -> MessageTypeSetPeerBandwidth

\* objectCallPacket.UnmarshalBinary, from the optional Args on: obj is what
\* v.CommandObject.UnmarshalBinary(p) gave
unmarshalArgs(pkt, p, obj) ==
    LET pkt3 == [pkt EXCEPT !.CommandObject = obj.v]
    IN  IF obj.err # ""
        THEN [err |-> IF obj.err = "panic" THEN "panic" ELSE "Command",
              pkt |-> pkt3]
        ELSE IF Size(obj.v) > Len(p) THEN [err |-> "panic", pkt |-> pkt3]
        ELSE IF Len(p) - Size(obj.v) = 0 THEN [err |-> "", pkt |-> pkt3]
        ELSE [err |-> IF UnmarshalBinary(NewObject, Drop(p, Size(obj.v))).err
                            \in {"", "panic"}
                      THEN UnmarshalBinary(NewObject, Drop(p, Size(obj.v))).err
                      ELSE "Args",
              pkt |-> [pkt3 EXCEPT
                          !.Args = UnmarshalBinary(NewObject,
                                                   Drop(p, Size(obj.v))).v]]

\* objectCallPacket.UnmarshalBinary, from the command object on: tid is what
\* v.TransactionID.UnmarshalBinary(p) gave
unmarshalCommandObject(pkt, p, tid) ==
    IF tid.err # "" THEN [err |-> tid.err, pkt |-> pkt]
    ELSE unmarshalArgs([pkt EXCEPT !.TransactionID = tid.v.v],
                       Drop(p, Size(tid.v)),
                       UnmarshalBinary(pkt.CommandObject, Drop(p, Size(tid.v))))

\* objectCallPacket.UnmarshalBinary, from the transaction id on: name is
\* what v.CommandName.UnmarshalBinary(p) gave
unmarshalTransactionID(pkt, p, name) ==
    IF name.err # "" THEN [err |-> name.err, pkt |-> pkt]
    ELSE unmarshalCommandObject(
             [pkt EXCEPT !.CommandName = name.v.v],
             Drop(p, Size(name.v)),
             UnmarshalBinary(NewNumber(pkt.TransactionID),
                             Drop(p, Size(name.v))))

\* objectCallPacket.UnmarshalBinary
objectCallPacketUnmarshal(pkt, data) ==
    unmarshalTransactionID(pkt, data,
                           UnmarshalBinary(NewString(pkt.CommandName), data))

\* objectCallPacket.MarshalBinary
objectCallPacketMarshal(pkt) ==
    MarshalBinary(NewString(pkt.CommandName))
    \o MarshalBinary(NewNumber(pkt.TransactionID))
    \o MarshalBinary(pkt.CommandObject)
    \o (IF pkt.Args # Nil THEN MarshalBinary(pkt.Args) ELSE <<>>)

\* A ConnectAppPacket that takes any transaction id.
checkCallNameOnly(kind, r) ==
    IF r.err # "" THEN r
    ELSE IF kind = "ConnectAppPacket" /\ r.pkt.CommandName # commandConnect
    THEN [err |-> "Invalid command name", pkt |-> r.pkt]
    ELSE IF kind = "ConnectAppResPacket" /\ r.pkt.CommandName # commandResult
    THEN [err |-> "Invalid command name", pkt |-> r.pkt]
    ELSE r

\* ConnectAppPacket.UnmarshalBinary and ConnectAppResPacket.UnmarshalBinary
\* after the objectCallPacket has been unmarshalled with result r
checkCall(kind, r) ==
    IF r.err # "" THEN r
    ELSE IF kind = "ConnectAppPacket" /\ r.pkt.CommandName # commandConnect
    THEN [err |-> "Invalid command name", pkt |-> r.pkt]
    ELSE IF kind = "ConnectAppPacket" /\ r.pkt.TransactionID # Number1
    THEN [err |-> "Invalid transaction ID", pkt |-> r.pkt]
    ELSE IF kind = "ConnectAppResPacket" /\ r.pkt.CommandName # commandResult
    THEN [err |-> "Invalid command name", pkt |-> r.pkt]
    ELSE r

\* pkt.UnmarshalBinary(data) for each kind of packet
PacketUnmarshal(pkt, data) ==
    CASE IsCall(pkt) ->
           checkCall(pkt.kind, objectCallPacketUnmarshal(pkt, data))
      [] pkt.kind = "SetChunkSize" ->
           IF Len(data) < 4 THEN [err |-> "data is not enough", pkt |-> pkt]
           ELSE [err |-> "",
                 pkt |-> [pkt EXCEPT !.ChunkSize = BigEndianUint32(data, 0)]]
      [] pkt.kind = "WindowAcknowledgementSize" ->
           IF Len(data) < 4 THEN [err |-> "data is not enough", pkt |-> pkt]
           ELSE [err |-> "",
                 pkt |-> [pkt EXCEPT !.AckSize = BigEndianUint32(data, 0)]]
      [] OTHER ->
           IF Len(data) < 5 THEN [err |-> "data is not enough", pkt |-> pkt]
           ELSE [err |-> "",
                 pkt |-> [pkt EXCEPT !.Bandwidth = BigEndianUint32(data, 0),
                                     !.LimitType = data[5]]]

\* pkt.MarshalBinary() for each kind of packet
PacketMarshal(pkt) ==
    CASE IsCall(pkt) -> objectCallPacketMarshal(pkt)
      [] pkt.kind = "SetChunkSize" -> BigEndianPutUint32(pkt.ChunkSize)
      [] pkt.kind = "WindowAcknowledgementSize" ->
           BigEndianPutUint32(pkt.AckSize)
      [] OTHER -> BigEndianPutUint32(pkt.Bandwidth) \o <<Byte(pkt.LimitType)>>

---------------------------------------------------------------------------
(* The packet decoder and the transaction table.  trans is the table on    *)
(* entry; the result carries the table on return.                          *)

\* delete(v.input.transactions, tid)
Delete(trans, tid) == [t \in DOMAIN trans \ {tid} |-> trans[t]]

\* v.input.transactions[tid] = name
Put(trans, tid, name) ==
    [t \in DOMAIN trans \cup {tid} |-> IF t = tid THEN name ELSE trans[t]]

\* parseAMFObject: return pkt, pkt.UnmarshalBinary(p), r being what
\* pkt.UnmarshalBinary(p) gave
parsed(r, trans) == [err |-> r.err, pkt |-> r.pkt, trans |-> trans]

\* A decoder that answers a response nobody asked for with a packet.
parseResponseUnasked(p, trans, transactionID) ==
    IF transactionID.err # ""
    THEN [err |-> transactionID.err, pkt |-> Nil, trans |-> trans]
    ELSE IF transactionID.v.v \notin DOMAIN trans
            \/ trans[transactionID.v.v] = commandConnect
    THEN parsed(PacketUnmarshal(NewConnectAppResPacket(transactionID.v.v), p),
                Delete(trans, transactionID.v.v))
    ELSE [err |-> "No request for", pkt |-> Nil,
          trans |-> Delete(trans, transactionID.v.v)]

\* parseAMFObject for a response, from the lookup of the request on:
\* transactionID is what transactionID.UnmarshalBinary gave
parseResponse(p, trans, transactionID) ==
    IF transactionID.err # ""
    THEN [err |-> transactionID.err, pkt |-> Nil, trans |-> trans]
    ELSE IF transactionID.v.v \notin DOMAIN trans
    THEN [err |-> "No matched request", pkt |-> Nil, trans |-> trans]
    ELSE IF trans[transactionID.v.v] = commandConnect
    THEN parsed(PacketUnmarshal(NewConnectAppResPacket(transactionID.v.v), p),
                Delete(trans, transactionID.v.v))
    ELSE [err |-> "No request for", pkt |-> Nil,
          trans |-> Delete(trans, transactionID.v.v)]

\* parseAMFObject, from the command name on: commandName is what
\* commandName.UnmarshalBinary(p) gave
parseCommand(p, trans, commandName) ==
    IF commandName.err # ""
    THEN [err |-> commandName.err, pkt |-> Nil, trans |-> trans]
    ELSE IF commandName.v.v \notin {commandResult, commandError}
    THEN [err |-> "Unknown request", pkt |-> Nil, trans |-> trans]
    ELSE parseResponse(p, trans,
             UnmarshalBinary(NewNumber(<<0, 0, 0, 0, 0, 0, 0, 0>>),
                             Drop(p, Size(commandName.v))))

\* parseAMFObject(p): the fresh packet to unmarshal p into
parseAMFObject(p, trans) ==
    parseCommand(p, trans, UnmarshalBinary(NewString(<<>>), p))

\* DecodeMessage, the unmarshalling of p into pkt: r is what
\* pkt.UnmarshalBinary(p) gave
decoded(r, trans) ==
    IF r.err = "panic" THEN [err |-> "panic", pkt |-> Nil, trans |-> trans]
    ELSE IF r.err # ""
    THEN [err |-> "Unmarshal failed", pkt |-> Nil, trans |-> trans]
    ELSE [err |-> "", pkt |-> r.pkt, trans |-> trans]

\* DecodeMessage for an AMF0 or AMF3 message: a is what parseAMFObject(p)
\* gave
decodeAMF(p, a) ==
    IF a.err = "panic" THEN [err |-> "panic", pkt |-> Nil, trans |-> a.trans]
    ELSE IF a.err # ""
    THEN [err |-> "Parse AMF failed: " \o a.err, pkt |-> Nil,
          trans |-> a.trans]
    ELSE decoded(PacketUnmarshal(a.pkt, p), a.trans)

\* DecodeMessage for a message whose payload without the AMF3 byte is p
decodePayload(messageType, p, trans) ==
    CASE messageType = MessageTypeSetChunkSize ->
           decoded(PacketUnmarshal(NewSetChunkSize, p), trans)
      [] messageType = MessageTypeWindowAcknowledgementSize ->
           decoded(PacketUnmarshal(NewWindowAcknowledgementSize, p), trans)
      [] messageType = MessageTypeSetPeerBandwidth ->
           decoded(PacketUnmarshal(NewSetPeerBandwidth, p), trans)
      [] messageType \in {MessageTypeAMF0Command, MessageTypeAMF3Command,
                          MessageTypeAMF0Data, MessageTypeAMF3Data} ->
           decodeAMF(p, parseAMFObject(p, trans))
      [] OTHER ->
           [err |-> "Unknown message type", pkt |-> Nil, trans |-> trans]

DecodeMessage(m, trans) ==
    IF Len(m.payload) = 0
    THEN [err |-> "Empty packet", pkt |-> Nil, trans |-> trans]
    ELSE decodePayload(
             m.messageType,
             IF m.messageType \in {MessageTypeAMF3Command, MessageTypeAMF3Data}
             THEN Drop(m.payload, 1) ELSE m.payload,
             trans)

\* onMessageArrivated after the switch on m.messageType: d is what
\* DecodeMessage(m) gave, or no packet and no error
applyPacket(d, chunkSize) ==
    IF d.err # ""
    THEN [err |-> d.err, chunkSize |-> chunkSize, trans |-> d.trans]
    ELSE [err |-> "",
          chunkSize |-> IF d.pkt # Nil /\ d.pkt.kind = "SetChunkSize"
                        THEN d.pkt.ChunkSize ELSE chunkSize,
          trans |-> d.trans]

\* A reader that decodes the SetChunkSize and keeps its chunk size.
onMessageArrivatedKeeping(m, chunkSize, trans) ==
    IF m.messageType \in {MessageTypeSetChunkSize, MessageTypeUserControl,
                          MessageTypeWindowAcknowledgementSize}
    THEN [applyPacket(DecodeMessage(m, trans), chunkSize)
             EXCEPT !.chunkSize = chunkSize]
    ELSE applyPacket([err |-> "", pkt |-> Nil, trans |-> trans], chunkSize)

\* onMessageArrivated(m) for a message m that is not nil: the new input
\* chunk size and the table
onMessageArrivated(m, chunkSize, trans) ==
    IF m.messageType \in {MessageTypeSetChunkSize, MessageTypeUserControl,
                          MessageTypeWindowAcknowledgementSize}
    THEN applyPacket(DecodeMessage(m, trans), chunkSize)
    ELSE applyPacket([err |-> "", pkt |-> Nil, trans |-> trans], chunkSize)

---------------------------------------------------------------------------
(* ReadMessage.  The body of its loop ends with onMessageArrivated(m),     *)
(* which reads m.messageType: a round that leaves m nil panics there, so   *)
(* the loop never takes a second round and one call is one round.          *)
(* The result tells, besides what the call returns and the state it        *)
(* leaves, what the round saw (info): the fmt and cid of the chunk,        *)
(* whether the chunk stream was fresh (count = 0) or held a partial        *)
(* message when the chunk came, how many payload bytes the message still   *)
(* missed and how many the round read (stage tells how far it got).        *)

NoInfo ==
    [stage |-> "none", format |-> 0, cid |-> 0, fresh |-> FALSE,
     partial |-> FALSE, left |-> 0, size |-> 0]

\* v.input.chunks[cid] = chunk
PutChunk(chs, cid, chunk) ==
    [c \in DOMAIN chs \cup {cid} |-> IF c = cid THEN chunk ELSE chs[c]]

\* ReadMessage after onMessageArrivated(m) has returned oa
arrivated(m, chs, rest, info, oa) ==
    [err |-> oa.err, m |-> m, chunks |-> chs, chunkSize |-> oa.chunkSize,
     trans |-> oa.trans, rest |-> rest, info |-> info]

\* ReadMessage after readMessagePayload(chunk) has returned pl
payloadRead(chs, chunkSize, trans, cid, info, pl) ==
    IF pl.err # ""
    THEN [err |-> pl.err, m |-> Nil, chunks |-> PutChunk(chs, cid, pl.chunk),
          chunkSize |-> chunkSize, trans |-> trans, rest |-> pl.rest,
          info |-> info]
    ELSE IF pl.m = Nil
    \* onMessageArrivated(nil) reads m.messageType
    THEN [err |-> "panic", m |-> Nil, chunks |-> PutChunk(chs, cid, pl.chunk),
          chunkSize |-> chunkSize, trans |-> trans, rest |-> pl.rest,
          info |-> [info EXCEPT !.stage = "payload", !.size = pl.size]]
    ELSE arrivated(pl.m, PutChunk(chs, cid, pl.chunk), pl.rest,
                   [info EXCEPT !.stage = "payload", !.size = pl.size],
                   onMessageArrivated(pl.m, chunkSize, trans))

\* ReadMessage after readMessageHeader(chunk, format) has returned mh
headerRead(chs, chunkSize, trans, cid, info, mh) ==
    IF mh.err # ""
    THEN [err |-> mh.err, m |-> Nil, chunks |-> PutChunk(chs, cid, mh.chunk),
          chunkSize |-> chunkSize, trans |-> trans, rest |-> mh.rest,
          info |-> info]
    ELSE payloadRead(chs, chunkSize, trans, cid,
                     [info EXCEPT
                         !.stage = "header",
                         !.left = mh.chunk.message.payloadLength
                                    - Len(mh.chunk.message.payload)],
                     readMessagePayload(mh.chunk, mh.rest, chunkSize))

\* v.input.chunks[cid], made when the chunk stream id is new
chunkOf(chs, cid) ==
    IF cid \in DOMAIN chs THEN chs[cid]
    ELSE [newChunkStream EXCEPT !.header.betterCid = cid]

\* ReadMessage after readBasicHeader() has returned bh
basicHeaderRead(chs, chunkSize, trans, bh) ==
    IF bh.err # ""
    THEN [err |-> bh.err, m |-> Nil, chunks |-> chs,
          chunkSize |-> chunkSize, trans |-> trans, rest |-> bh.rest,
          info |-> NoInfo]
    ELSE headerRead(chs, chunkSize, trans, bh.cid,
                    [stage |-> "basic", format |-> bh.format, cid |-> bh.cid,
                     fresh |-> chunkOf(chs, bh.cid).count = 0,
                     partial |-> chunkOf(chs, bh.cid).message # Nil,
                     left |-> 0, size |-> 0],
                    readMessageHeader(chunkOf(chs, bh.cid), bh.format,
                                      bh.rest))

ReadMessage(buf, chs, chunkSize, trans) ==
    basicHeaderRead(chs, chunkSize, trans, readBasicHeader(buf))

---------------------------------------------------------------------------
(* WritePacket.  The result is the message and the bytes writeMessage      *)
(* hands to v.w; ok tells whether the transport took them at the flush.    *)

\* The message WritePacket builds from pkt.
PacketMessage(pkt, streamID) ==
    LET payload == PacketMarshal(pkt)
    IN  WithPayload(MessageHeader(0, Len(payload), Type(pkt), streamID,
                                  BetterCid(pkt), 0),
                    payload)

onPacketWriten(pkt, trans) ==
    IF pkt.kind = "ConnectAppPacket"
    THEN Put(trans, pkt.TransactionID, pkt.CommandName)
    ELSE trans

\* A writer that records the request before it knows the write succeeded.
WritePacketEager(pkt, streamID, chunkSize, trans, ok) ==
    LET m == PacketMessage(pkt, streamID)
    IN  IF ~ok
        THEN [err |-> "write", m |-> m, bytes |-> <<>>,
              trans |-> onPacketWriten(pkt, trans)]
        ELSE [err |-> "", m |-> m, bytes |-> writeMessage(m, chunkSize),
              trans |-> onPacketWriten(pkt, trans)]

WritePacket(pkt, streamID, chunkSize, trans, ok) ==
    LET m == PacketMessage(pkt, streamID)
    IN  IF ~ok
        THEN [err |-> "write", m |-> m, bytes |-> <<>>, trans |-> trans]
        ELSE [err |-> "", m |-> m, bytes |-> writeMessage(m, chunkSize),
              trans |-> onPacketWriten(pkt, trans)]

---------------------------------------------------------------------------
(* Bounds of the model and the inputs of the peer and of the caller.       *)

\* how many chunks or messages the peer writes
MaxPeerWrites == 3
\* how many messages the peer writes in the connect exchange
MaxResponses == 5

\* n bytes seed+1, seed+2, ...
Pattern(n, seed) == [i \in 1..n |-> (seed + i) % 256]

\* a 3-byte big-endian field
Uint24Bytes(x) == <<Byte(x \div 65536), Byte(x \div 256), Byte(x)>>

\* the chunk basic header a peer writes for fmt and cid
BasicHeaderBytes(format, cid) ==
    IF cid < 64 THEN <<format * 64 + cid>>
    ELSE IF cid < 320 THEN <<format * 64, cid - 64>>
    ELSE <<format * 64 + 1, (cid - 64) % 256, (cid - 64) \div 256>>

\* One chunk as a peer puts it on the wire: basic header, the message
\* header of the fmt (field is the timestamp or delta field), the extended
\* timestamp bytes ext (none, or 4) and the chunk's payload bytes.
RawChunk(format, cid, field, length, type, sid, ext, payload) ==
    BasicHeaderBytes(format, cid)
    \o (IF format <= formatType2 THEN Uint24Bytes(field) ELSE <<>>)
    \o (IF format <= formatType1 THEN Uint24Bytes(length) \o <<type>>
        ELSE <<>>)
    \o (IF format = formatType0
        THEN <<Byte(sid), Byte(sid \div 256), Byte(sid \div 65536),
               Byte(sid \div 16777216)>>
        ELSE <<>>)
    \o ext \o payload

PeerCids == {2, 3}

\* the chunk sizes a peer announces
PeerChunkSizes == {2, 4096}

\* The chunks the peer chooses from, for each of its chunk stream ids: a
\* whole message in a Type0, Type1, Type2 or Type3 chunk, a SetChunkSize,
\* a message longer than the default chunk size, a Type0 chunk with an
\* extended timestamp, and a message with no payload.
ChunkChoices ==
    UNION {
        { RawChunk(0, c, 26, 3, 9, 1, <<>>, <<1, 2, 3>>),
          RawChunk(1, c, 10, 3, 9, 0, <<>>, <<4, 5, 6>>),
          RawChunk(2, c, 10, 0, 0, 0, <<>>, <<7, 8, 9>>),
          RawChunk(3, c, 0, 0, 0, 0, <<>>, <<10, 11, 12>>),
          RawChunk(0, c, 0, 130, 9, 1, <<>>, Pattern(130, 0)),
          RawChunk(0, c, 16777215, 3, 9, 1, <<1, 0, 0, 0>>, <<1, 2, 3>>),
          RawChunk(0, c, 0, 0, 9, 1, <<>>, <<>>) }
        \cup { RawChunk(0, c, 0, 4, MessageTypeSetChunkSize, 0, <<>>,
                        BigEndianPutUint32(n)) : n \in PeerChunkSizes }
        : c \in PeerCids }

\* A message as the caller of writeMessage builds it.
Msg(ts, type, sid, cid, payload) ==
    WithPayload(MessageHeader(0, Len(payload), type, sid, cid, ts), payload)

\* The messages the peer writes through its own Protocol: the payload
\* lengths around the chunk size, the timestamps around the extended
\* timestamp, two stream ids, two chunk stream ids.
MessageChoices ==
    { Msg(0, 9, 1, 3, Pattern(n, 0)) : n \in {0, 1, 128, 129, 257} }
    \cup { Msg(ts, 9, 1, 3, <<1, 2, 3>>) :
              ts \in {26, 16777214, 16777215, 16777216, 2147483647} }
    \cup { Msg(0, 18, 0, 5, <<1, 2, 3>>) }

\* A string of n bytes.
Text(n) == [i \in 1..n |-> 97 + (i % 26)]

\* "tcUrl", "level"
KeyTcUrl == <<116, 99, 85, 114, 108>>
KeyLevel == <<108, 101, 118, 101, 108>>

\* NewConnectAppPacket with CommandObject.Set("tcUrl", url)
Connect(tid, url) ==
    [NewConnectAppPacket EXCEPT
        !.TransactionID = tid,
        !.CommandObject.properties =
            Set(<<>>, KeyTcUrl, NewString(url))]

\* The packets the caller writes: a Connect (payload of 54 bytes), a
\* Connect whose transaction id the caller has set to 2.0, and a
\* SetChunkSize.
PacketChoices ==
    { Connect(Number1, Text(21)), Connect(Number2, Text(21)),
      [NewSetChunkSize EXCEPT !.ChunkSize = 4096] }

\* The payload of a response command: name, transaction id, a command
\* object with one string property of n bytes, and an args object.
ResponsePayload(name, tid, n) ==
    MarshalBinary(NewString(name)) \o MarshalBinary(NewNumber(tid))
    \o MarshalBinary([NewObject EXCEPT
           !.properties = Set(<<>>, KeyLevel, NewString(Text(n)))])
    \o MarshalBinary(NewObject)

\* The responses the peer chooses from: _result for transaction 1.0 (43
\* and 150 bytes long), _result for transaction 2.0, _error for 1.0.
ResponseChoices ==
    { Msg(0, MessageTypeAMF0Command, 0, 3,
          ResponsePayload(commandResult, Number1, 6)),
      Msg(0, MessageTypeAMF0Command, 0, 3,
          ResponsePayload(commandResult, Number1, 115)),
      Msg(0, MessageTypeAMF0Command, 0, 3,
          ResponsePayload(commandResult, Number2, 6)),
      Msg(0, MessageTypeAMF0Command, 0, 3,
          ResponsePayload(commandError, Number1, 6)) }

\* What the peer sends as its k-th message of the connect exchange (k
\* counted from 0): SetChunkSize, WindowAcknowledgementSize,
\* SetPeerBandwidth, then responses.
ExchangeChoices(k) ==
    CASE k = 0 -> { Msg(0, MessageTypeSetChunkSize, 0, 2,
                        BigEndianPutUint32(n)) : n \in {128, 4096} }
      [] k = 1 -> { Msg(0, MessageTypeWindowAcknowledgementSize, 0, 2,
                        BigEndianPutUint32(2500000)) }
      [] k = 2 -> { Msg(0, MessageTypeSetPeerBandwidth, 0, 2,
                        BigEndianPutUint32(2500000) \o <<2>>) }
      [] OTHER -> ResponseChoices

---------------------------------------------------------------------------
(* The state machine.                                                      *)

NoRet ==
    [op |-> "none", err |-> "", m |-> Nil, pkt |-> Nil, arg |-> Nil,
     info |-> NoInfo, expect |-> Nil, table |-> <<>>, prev |-> ""]

\* No handshake under way, nothing planned by the peer, no amf0 value, no
\* FLV file and no call.
NoHandshake ==
    [pc |-> 0, out |-> <<>>, c1 |-> <<>>, s0 |-> <<>>, s1 |-> <<>>,
     s2 |-> <<>>, err |-> ""]
NoPending == [units |-> <<>>, cut |-> "none"]
NoAmf ==
    [v |-> Nil, calls |-> <<>>, nsets |-> 0, data |-> <<>>, back |-> Nil,
     op |-> "none"]
NoFlv ==
    [start |-> <<>>, file |-> <<>>, calls |-> <<>>, opened |-> FALSE,
     rest |-> <<>>, got |-> <<>>, last |-> Nil, err |-> ""]
NoCall == [op |-> "none", data |-> <<>>, err |-> "", res |-> Nil]
NoSample ==
    [rps |-> [num |-> 0, den |-> 1], nbRequests |-> 0, create |-> 0,
     lastSample |-> 0, interval |-> 0]
NoKrps ==
    [source |-> 0, now |-> 0, ticks |-> 0, r10s |-> NoSample,
     r30s |-> NoSample, r300s |-> NoSample, average |-> 0, create |-> 0,
     closed |-> FALSE, started |-> FALSE, op |-> "none",
     ret |-> [num |-> 0, den |-> 1], sampled |-> {}, seen |-> Nil,
     first |-> Nil]

InitElsewhere ==
    /\ hs = NoHandshake
    /\ pending = NoPending
    /\ amf = NoAmf
    /\ flv = NoFlv
    /\ krps = NoKrps
    /\ call = NoCall

Init ==
    /\ rbuf = <<>>
    /\ closed = FALSE
    /\ wbuf = <<>>
    /\ chunks = <<>>
    /\ inChunkSize = defaultChunkSize
    /\ outChunkSize = defaultChunkSize
    /\ transactions = <<>>
    /\ crashed = FALSE
    /\ ret = NoRet
    /\ sent = <<>>
    /\ peerChunkSize = defaultChunkSize
    /\ nops = 0
    /\ InitElsewhere

\* The peer puts one chunk on the wire.
PeerWriteChunk ==
    /\ ~closed /\ ~crashed
    /\ nops < MaxPeerWrites
    /\ \E c \in ChunkChoices : rbuf' = rbuf \o c
    /\ nops' = nops + 1
    /\ UNCHANGED <<closed, wbuf, chunks, inChunkSize, outChunkSize,
                   transactions, crashed, ret, sent, peerChunkSize>>
    /\ UNCHANGED elsewhere

\* The peer, a Protocol of its own, writes one message with writeMessage.
PeerWriteMessage ==
    /\ ~closed /\ ~crashed
    /\ nops < MaxPeerWrites
    /\ \E m \in MessageChoices :
          /\ rbuf' = rbuf \o writeMessage(m, peerChunkSize)
          /\ sent' = Append(sent, m)
    /\ nops' = nops + 1
    /\ UNCHANGED <<closed, wbuf, chunks, inChunkSize, outChunkSize,
                   transactions, crashed, ret, peerChunkSize>>
    /\ UNCHANGED elsewhere

\* The peer writes the next message of the connect exchange, split with
\* the chunk size it has announced.
PeerRespond ==
    /\ ~closed /\ ~crashed
    /\ nops < MaxResponses
    /\ \E m \in ExchangeChoices(nops) :
          /\ rbuf' = rbuf \o writeMessage(m, peerChunkSize)
          /\ sent' = Append(sent, m)
          /\ peerChunkSize' = IF m.messageType = MessageTypeSetChunkSize
                              THEN BigEndianUint32(m.payload, 0)
                              ELSE peerChunkSize
    /\ nops' = nops + 1
    /\ UNCHANGED <<closed, wbuf, chunks, inChunkSize, outChunkSize,
                   transactions, crashed, ret>>
    /\ UNCHANGED elsewhere

\* The peer closes the transport.
PeerClose ==
    /\ ~closed /\ ~crashed
    /\ closed' = TRUE
    /\ UNCHANGED <<rbuf, wbuf, chunks, inChunkSize, outChunkSize,
                   transactions, crashed, ret, sent, peerChunkSize, nops>>
    /\ UNCHANGED elsewhere

\* v.ReadMessage().  A read that meets the end of the bytes at hand waits
\* for more, and fails once the transport is closed.
CallReadMessage ==
    /\ ~crashed
    /\ \E r \in {ReadMessage(rbuf, chunks, inChunkSize, transactions)} :
           /\ r.err = "short" => closed
           /\ rbuf' = r.rest
           /\ chunks' = r.chunks
           /\ inChunkSize' = r.chunkSize
           /\ transactions' = r.trans
           /\ crashed' = (r.err = "panic")
           /\ ret' = [op |-> "ReadMessage", err |-> r.err, m |-> r.m,
                      pkt |-> Nil, arg |-> Nil, info |-> r.info,
                      expect |-> IF sent # <<>> THEN Head(sent) ELSE Nil,
                      table |-> transactions, prev |-> ret.err]
           /\ sent' = IF sent # <<>> THEN Tail(sent) ELSE sent
    /\ UNCHANGED <<closed, wbuf, outChunkSize, peerChunkSize, nops>>
    /\ UNCHANGED elsewhere

\* v.DecodeMessage(m) of the message ReadMessage has just returned.
CallDecodeMessage ==
    /\ ~crashed
    /\ ret.op = "ReadMessage" /\ ret.err = ""
    /\ \E d \in {DecodeMessage(ret.m, transactions)} :
           /\ transactions' = d.trans
           /\ crashed' = (d.err = "panic")
           /\ ret' = [op |-> "DecodeMessage", err |-> d.err, m |-> ret.m,
                      pkt |-> d.pkt, arg |-> Nil, info |-> NoInfo,
                      expect |-> Nil, table |-> transactions, prev |-> ret.err]
    /\ UNCHANGED <<rbuf, closed, wbuf, chunks, inChunkSize, outChunkSize,
                   sent, peerChunkSize, nops>>
    /\ UNCHANGED elsewhere

\* v.WritePacket(pkt, 1); the transport takes the bytes or fails.
CallWritePacket ==
    /\ ~crashed
    /\ \E pkt \in PacketChoices, ok \in BOOLEAN :
          \E w \in {WritePacket(pkt, 1, outChunkSize, transactions, ok)} :
              /\ wbuf' = w.bytes
              /\ transactions' = w.trans
              /\ ret' = [op |-> "WritePacket", err |-> w.err, m |-> w.m,
                         pkt |-> Nil, arg |-> pkt, info |-> NoInfo,
                         expect |-> Nil, table |-> transactions, prev |-> ret.err]
    /\ UNCHANGED <<rbuf, closed, chunks, inChunkSize, outChunkSize, crashed,
                   sent, peerChunkSize, nops>>
    /\ UNCHANGED elsewhere

\* The chunk reader against a peer that writes chunks.
Next ==
    \/ PeerWriteChunk
    \/ PeerClose
    \/ CallReadMessage
    \/ CallDecodeMessage

Spec == Init /\ [][Next]_vars

\* Two Protocols over a pipe: one writes messages, the other reads them.
NextRoundTrip ==
    \/ PeerWriteMessage
    \/ CallReadMessage

SpecRoundTrip == Init /\ [][NextRoundTrip]_vars

\* The connect exchange of a client.
NextConnect ==
    \/ CallWritePacket
    \/ PeerRespond
    \/ CallReadMessage
    \/ CallDecodeMessage

SpecConnect == Init /\ [][NextConnect]_vars

\* writeMessage as a function of the message and of the output chunk size:
\* the message and the chunk size are drawn at the start, and the one step
\* writes the message.
WriteChunkSizes == {16, 64, 127, 128, 129, 300}
WriteLengths == {1, 2, 17, 127, 128, 129, 256, 257, 258}
WriteTimestamps == {0, 16777214, 16777215, 16777216}

InitWrite ==
    /\ rbuf = <<>>
    /\ closed = FALSE
    /\ wbuf = <<>>
    /\ chunks = <<>>
    /\ inChunkSize = defaultChunkSize
    /\ outChunkSize \in WriteChunkSizes
    /\ transactions = <<>>
    /\ crashed = FALSE
    /\ ret = NoRet
    /\ \E n \in WriteLengths, ts \in WriteTimestamps :
          sent = <<Msg(ts, 9, 1, 3, Pattern(n, 0))>>
    /\ peerChunkSize = defaultChunkSize
    /\ nops = 0
    /\ InitElsewhere

\* v.writeMessage(m)
CallWriteMessage ==
    /\ sent # <<>>
    /\ wbuf' = writeMessage(Head(sent), outChunkSize)
    /\ ret' = [NoRet EXCEPT !.op = "writeMessage", !.m = Head(sent)]
    /\ sent' = Tail(sent)
    /\ UNCHANGED <<rbuf, closed, chunks, inChunkSize, outChunkSize,
                   transactions, crashed, peerChunkSize, nops>>
    /\ UNCHANGED elsewhere

NextWrite == CallWriteMessage

SpecWrite == InitWrite /\ [][NextWrite]_vars

---------------------------------------------------------------------------
(* Properties.                                                             *)

\* m is equal to the message e the peer wrote, the timestamp masked to 31
\* bits
SameMessage(m, e) ==
    /\ m # Nil
    /\ m.timestamp = Mask31(e.timestamp)
    /\ m.payloadLength = e.payloadLength
    /\ m.messageType = e.messageType
    /\ m.streamID = e.streamID
    /\ m.betterCid = e.betterCid
    /\ m.payload = e.payload

\* C1: every message a Protocol writes with writeMessage is returned by
\* ReadMessage of a fresh Protocol at the other end of the pipe, equal in
\* timestamp (masked to 31 bits), payload length, type, stream id, chunk
\* stream id and payload.
C1_RoundTrip ==
    (ret.op = "ReadMessage" /\ ret.expect # Nil) =>
        (ret.err = "" /\ SameMessage(ret.m, ret.expect))

\* the number of chunks of a payload of L bytes cut at S bytes
NumChunks(L, S) == (L + S - 1) \div S

\* the payload bytes of the k-th chunk, k from 1
ChunkPayload(p, S, k) == SubSeq(p, (k - 1) * S + 1, Min(k * S, Len(p)))

RECURSIVE Concat(_, _)
\* f[1] \o ... \o f[n]
Concat(f, n) == IF n = 0 THEN <<>> ELSE Concat(f, n - 1) \o f[n]

\* ceil(L/S) chunks in payload order, the first behind the Type0 header, the
\* later ones behind the Type3 header, each with min(remaining, S) bytes
ChunkLayout(m, S) ==
    Concat([k \in 1..NumChunks(Len(m.payload), S) |->
               (IF k = 1 THEN generateC0Header(m) ELSE generateC3Header(m))
               \o ChunkPayload(m.payload, S, k)],
           NumChunks(Len(m.payload), S))

\* C2: for a payload of L > 0 bytes and chunk size S, writeMessage emits
\* ceil(L/S) chunks in payload order, the first behind one Type0 header and
\* the later ones behind a Type3 header, each of min(remaining, S) payload
\* bytes; 257 bytes at S = 128 give Type0 + 128 + Type3 + 128 + Type3 + 1.
C2_WriterChunking ==
    ret.op = "writeMessage" =>
        /\ wbuf = ChunkLayout(ret.m, outChunkSize)
        /\ Head(generateC0Header(ret.m)) \div 64 = formatType0
        /\ Head(generateC3Header(ret.m)) \div 64 = formatType3
        /\ (Len(ret.m.payload) = 257 /\ outChunkSize = 128) =>
              wbuf = generateC0Header(ret.m) \o SubSeq(ret.m.payload, 1, 128)
                       \o generateC3Header(ret.m)
                       \o SubSeq(ret.m.payload, 129, 256)
                       \o generateC3Header(ret.m) \o <<ret.m.payload[257]>>

\* a 257-byte payload has been written at chunk size 128 as three chunks
C2_Witness ==
    /\ ret.op = "writeMessage"
    /\ Len(ret.m.payload) = 257
    /\ outChunkSize = 128
    /\ ret.m.timestamp = 0
    /\ Len(wbuf) = 12 + 128 + 1 + 128 + 1 + 1

\* min(left, n) for a chunk size n held as a uint32
Carried(left, n) == IF n >= 0 /\ left > n THEN n ELSE left

\* C3: the input chunk size is 128 before any SetChunkSize; once ReadMessage
\* has assembled a SetChunkSize whose payload is n it is n, nothing else
\* changes it, and every chunk it reads carries min(bytes its message still
\* misses, input chunk size) payload bytes.
C3_InputChunkSize ==
    /\ inChunkSize = defaultChunkSize
    /\ [][/\ (CallReadMessage /\ ret'.err = ""
                  /\ ret'.m.messageType = MessageTypeSetChunkSize)
              => inChunkSize' = BigEndianUint32(ret'.m.payload, 0)
          /\ inChunkSize' # inChunkSize
              => (CallReadMessage /\ ret'.m # Nil
                    /\ ret'.m.messageType = MessageTypeSetChunkSize)
          /\ (CallReadMessage /\ ret'.info.stage = "payload")
              => ret'.info.size = Carried(ret'.info.left, inChunkSize)]_vars

\* after a SetChunkSize of 4096 a message of 130 bytes has come in one chunk
C3_Witness ==
    /\ inChunkSize = 4096
    /\ ret.op = "ReadMessage"
    /\ ret.err = ""
    /\ ret.info.left = 130
    /\ ret.info.size = 130
    /\ Len(ret.m.payload) = 130

\* the payloads of the peer's responses named name for transaction tid
ResponseFor(name, tid) == {ResponsePayload(name, tid, n) : n \in {6, 115}}

\* C4: with the Connect of transaction 1.0 written and waiting, the _result
\* for 1.0 that the peer sends after SetChunkSize, WindowAcknowledgementSize
\* and SetPeerBandwidth is returned by ReadMessage, DecodeMessage decodes it
\* as a ConnectAppResPacket, and the transaction table is empty afterwards.
C4_ConnectResult ==
    /\ (ret.op = "ReadMessage" /\ ret.expect # Nil
            /\ ret.expect.payload \in ResponseFor(commandResult, Number1)
            /\ DOMAIN ret.table = {Number1})
         => (ret.err = "" /\ SameMessage(ret.m, ret.expect))
    /\ (ret.op = "DecodeMessage"
            /\ ret.m.payload \in ResponseFor(commandResult, Number1)
            /\ DOMAIN ret.table = {Number1})
         => (ret.err = "" /\ ret.pkt.kind = "ConnectAppResPacket"
               /\ transactions = <<>>)

NoMatchedRequest == "Parse AMF failed: No matched request"

\* C5: DecodeMessage of a _result or _error whose transaction id is not in
\* the transaction table returns the error "no matched request" and no
\* packet, and leaves the table, the chunk streams, the input chunk size
\* and the bytes not yet read as they were; the Protocol goes on working.
C5_NoMatchedRequest ==
    [][(/\ CallDecodeMessage
        /\ \E name \in {commandResult, commandError},
              tid \in {Number1, Number2} :
              /\ ret.m.payload \in ResponseFor(name, tid)
              /\ tid \notin DOMAIN transactions)
       => (/\ ret'.err = NoMatchedRequest
           /\ ret'.pkt = Nil
           /\ UNCHANGED <<transactions, chunks, inChunkSize, rbuf>>
           /\ ~crashed')]_vars

\* a ReadMessage has returned a message right after a DecodeMessage that
\* found no matched request
C5_Witness ==
    /\ ret.op = "ReadMessage"
    /\ ret.err = ""
    /\ ret.m # Nil
    /\ ret.prev = NoMatchedRequest

\* C6: WritePacket adds (transaction id -> command name) to the table when
\* the packet is a Connect and the write with its flush succeeded, and
\* leaves the table alone otherwise; an entry goes only when DecodeMessage
\* handles a _result or _error that carries its transaction id.
C6_TransactionTable ==
    [][/\ CallWritePacket =>
            IF ret'.arg.kind = "ConnectAppPacket" /\ ret'.err = ""
            THEN /\ DOMAIN transactions'
                      = DOMAIN transactions \cup {ret'.arg.TransactionID}
                 /\ transactions'[ret'.arg.TransactionID]
                      = ret'.arg.CommandName
                 /\ \A t \in DOMAIN transactions \ {ret'.arg.TransactionID} :
                       transactions'[t] = transactions[t]
            ELSE transactions' = transactions
       /\ \A t \in DOMAIN transactions :
             t \notin DOMAIN transactions' =>
                /\ CallDecodeMessage
                /\ \E name \in {commandResult, commandError} :
                      ret.m.payload \in ResponseFor(name, t)
       /\ ~CallWritePacket => DOMAIN transactions' \subseteq DOMAIN transactions
      ]_vars

\* the _result for 1.0 has taken the entry of 1.0 and left that of 2.0
C6_Witness ==
    /\ ret.op = "DecodeMessage"
    /\ ret.err = ""
    /\ DOMAIN ret.table = {Number1, Number2}
    /\ DOMAIN transactions = {Number2}
    /\ transactions[Number2] = commandConnect

\* the last call was a ReadMessage that read the basic header of a chunk
ReadChunk == ret.op = "ReadMessage" /\ ret.info.stage # "none"

\* C7: the first chunk of a chunk stream id with fmt 1, 2 or 3 makes
\* ReadMessage fail with the error for a fresh chunk stream, cid 2 with fmt
\* 1 left aside; with fmt 0 it is accepted.
C7_FirstChunkType0 ==
    (ReadChunk /\ ret.info.fresh) =>
        /\ (/\ ret.info.format \in {formatType1, formatType2, formatType3}
            /\ ~(ret.info.cid = chunkIDProtocolControl
                   /\ ret.info.format = formatType1))
             => ret.err = "fresh"
        /\ ret.info.format = formatType0 => ret.err \notin {"fresh", "exists"}

\* a Type3 chunk has come first on chunk stream 3 and has been refused
C7_Witness ==
    /\ ReadChunk /\ ret.info.fresh
    /\ ret.info.cid = 3
    /\ ret.info.format = formatType3
    /\ ret.err = "fresh"

\* C8: a first chunk on chunk stream id 2 with fmt 1 is tolerated:
\* ReadMessage does not fail on it and returns the message it carries.
C8_PingQuirk ==
    (/\ ReadChunk /\ ret.info.fresh
     /\ ret.info.cid = chunkIDProtocolControl
     /\ ret.info.format = formatType1
     /\ ret.err # "short")
       => (ret.err = "" /\ ret.m # Nil)

\* chunk stream c holds a part of a message
HoldsPartial(c) ==
    /\ chunks[c].message # Nil
    /\ Len(chunks[c].message.payload) > 0
    /\ Len(chunks[c].message.payload) < chunks[c].message.payloadLength

\* C9: while a chunk stream holds a partial message, a chunk of fmt 0 on it
\* makes ReadMessage fail, and the reader is there to take the chunks of
\* fmt 1, 2 or 3 that continue the message.
C9_PartialMessage ==
    /\ (ReadChunk /\ ret.info.partial /\ ret.info.format = formatType0)
         => ret.err = "exists"
    /\ (\E c \in DOMAIN chunks : HoldsPartial(c)) => ~crashed

\* C10: a message written with a timestamp of 0xFFFFFF or more, which puts
\* FF FF FF in the Type0 header and the timestamp in the 4 bytes after it,
\* is read back with the timestamp masked to 31 bits, the 4 bytes consumed
\* and the payload intact.
C10_ExtendedTimestampRead ==
    (/\ ret.op = "ReadMessage" /\ ret.expect # Nil
     /\ ret.expect.timestamp >= extendedTimestamp)
       => (/\ ret.err = ""
           /\ ret.m # Nil
           /\ ret.m.timestamp = Mask31(ret.expect.timestamp)
           /\ ret.m.payload = ret.expect.payload)

---------------------------------------------------------------------------
(* Chunk streams interleaved.  The peer cuts each of two messages, on two  *)
(* chunk stream ids, into chunks as writeMessage does, and puts the chunks *)
(* of the two on the wire in an order of its choice.                       *)

\* how many pairs of messages the peer writes
MaxInterleaved == 2

RECURSIVE chunkList(_, _, _, _, _)
\* The chunks of the loop of writeMessage, one byte sequence each.
chunkList(c0h, c3h, p, first, chunkSize) ==
    IF Len(p) = 0
    THEN <<>>
    ELSE LET h == IF first THEN c0h ELSE c3h
             size == IF Len(p) > chunkSize THEN chunkSize ELSE Len(p)
         IN  <<h \o Slice(p, 0, size)>>
               \o chunkList(c0h, c3h, Drop(p, size), FALSE, chunkSize)

\* the chunks writeMessage cuts m into
ChunksOf(m, chunkSize) ==
    chunkList(generateC0Header(m), generateC3Header(m), m.payload, TRUE,
              chunkSize)

\* the orders in which a chunks of one message and b chunks of another can
\* follow each other, each message's chunks in their own order: order[i]
\* tells whose chunk comes i-th
Orders(a, b) ==
    {o \in [1..(a + b) -> {1, 2}] : Cardinality({i \in 1..(a + b) : o[i] = 1}) = a}

RECURSIVE Merge(_, _, _)
\* the bytes on the wire for the chunks ca and cb in the order given
Merge(ca, cb, order) ==
    IF Len(order) = 0 THEN <<>>
    ELSE IF Head(order) = 1
    THEN Head(ca) \o Merge(Tail(ca), cb, Tail(order))
    ELSE Head(cb) \o Merge(ca, Tail(cb), Tail(order))

\* the two messages in the order in which their last chunks come
CompletionOrder(ma, mb, order) ==
    IF order[Len(order)] = 1 THEN <<mb, ma>> ELSE <<ma, mb>>

\* the payload lengths of the peer's messages: one chunk, two chunks
InterleavedLengths == {3, 130}

\* the message types of the peer's messages: UserControl, audio, video and
\* a type no packet belongs to
InterleavedTypes == {MessageTypeUserControl, 8, 9, 22}

\* The peer writes a video message on chunk stream 3 and a message of some
\* type on chunk stream 5, their chunks interleaved.
PeerWriteInterleaved ==
    /\ ~closed /\ ~crashed
    /\ nops < MaxInterleaved
    /\ \E la \in InterleavedLengths, lb \in InterleavedLengths,
          tb \in InterleavedTypes :
          \E ma \in {Msg(0, 9, 1, 3, Pattern(la, 0))},
             mb \in {Msg(0, tb, 1, 5, Pattern(lb, 100))} :
             \E order \in Orders(Len(ChunksOf(ma, peerChunkSize)),
                                 Len(ChunksOf(mb, peerChunkSize))) :
                /\ rbuf' = rbuf \o Merge(ChunksOf(ma, peerChunkSize),
                                         ChunksOf(mb, peerChunkSize), order)
                /\ sent' = sent \o CompletionOrder(ma, mb, order)
    /\ nops' = nops + 1
    /\ UNCHANGED <<closed, wbuf, chunks, inChunkSize, outChunkSize,
                   transactions, crashed, ret, peerChunkSize>>
    /\ UNCHANGED elsewhere

NextStreams ==
    \/ PeerWriteInterleaved
    \/ CallReadMessage

SpecStreams == Init /\ [][NextStreams]_vars

\* m carries what the peer's message e carried: length, type, stream id,
\* chunk stream id and payload
SameContent(m, e) ==
    /\ m # Nil
    /\ m.payloadLength = e.payloadLength
    /\ m.messageType = e.messageType
    /\ m.streamID = e.streamID
    /\ m.betterCid = e.betterCid
    /\ m.payload = e.payload

\* C11: when the chunks of messages on different chunk stream ids are
\* interleaved on the wire, ReadMessage builds each message from the chunks
\* of its own chunk stream id only, and successive calls return the messages
\* in the order in which their last chunks arrive.
C11_Interleaved ==
    (ret.op = "ReadMessage" /\ ret.expect # Nil) =>
        (~crashed /\ SameContent(ret.m, ret.expect))

\* C12: ReadMessage returns every message it has assembled whatever the
\* message type (UserControl, audio, video, a type without a packet), the
\* payload as it came, and does not fail because of the type.
C12_AnyMessageType ==
    (ret.op = "ReadMessage" /\ ret.m # Nil /\ ret.expect # Nil) =>
        (ret.err = "" /\ SameContent(ret.m, ret.expect))

---------------------------------------------------------------------------
(* The handshake of a client (ExampleRtmpClientHandshake) and the chunk    *)
(* stream that follows it on the same transport.  The peer writes its      *)
(* bytes unit by unit: S0, S1, S2, then the parts of one chunk; it may end *)
(* the transport inside a unit, or before its first byte.                  *)

\* Handshake.WriteC0S0: the byte it writes
WriteC0S0 == <<3>>

\* Handshake.WriteC1S1: 1536 bytes, the first 8 zero, the rest what v.r.Read
\* has put there (random)
WriteC1S1(random) == [i \in 1..8 |-> 0] \o random

\* Handshake.WriteC2S2: the bytes it writes
WriteC2S2(s1c1) == s1c1

\* io.CopyN(b, r, n) and the return of b.Bytes(): buf is what the transport
\* holds, which is all it will ever hold when the read comes back short
CopyN(buf, n) ==
    IF Len(buf) < n
    THEN [err |-> "short", bytes |-> <<>>, rest |-> <<>>]
    ELSE [err |-> "", bytes |-> Slice(buf, 0, n), rest |-> Drop(buf, n)]

ReadC0S0(buf) == CopyN(buf, 1)
ReadC1S1(buf) == CopyN(buf, 1536)
ReadC2S2(buf) == CopyN(buf, 1536)

\* A client that sends C2 as soon as it has S1.
ExampleRtmpClientHandshakeEarly ==
    <<"WriteC0S0", "WriteC1S1", "ReadC0S0", "ReadC1S1", "WriteC2S2",
      "ReadC2S2">>

\* The statements of ExampleRtmpClientHandshake, in program order.
ExampleRtmpClientHandshake ==
    <<"WriteC0S0", "WriteC1S1", "ReadC0S0", "ReadC1S1", "ReadC2S2",
      "WriteC2S2">>

\* the statement the client is at; it has returned after the last one, and
\* it has panicked once a call has given it an error
Statement ==
    IF hs.err # "" THEN "panic"
    ELSE IF hs.pc \in 1..Len(ExampleRtmpClientHandshake)
    THEN ExampleRtmpClientHandshake[hs.pc]
    ELSE "return"

\* what rand.Rand gives for the 1528 bytes of C1
RandomChoices == {Pattern(1528, 0), Pattern(1528, 7)}

\* the S1 a server sends
S1Choices == {Pattern(1536, 1), Pattern(1536, 50)}

Unit(kind, bytes) == [kind |-> kind, bytes |-> bytes]

\* The chunk the peer sends after its handshake, as units: a message of 3
\* bytes on chunk stream 3, the same on chunk stream 69 (a basic header of 2
\* bytes), and the same with a timestamp of 0x1000000, which is in the 4
\* bytes after the message header.
ChunkUnitChoices ==
    { <<Unit("basic", <<3>>),
        Unit("header", <<0, 0, 26, 0, 0, 3, 9, 1, 0, 0, 0>>),
        Unit("payload", <<1, 2, 3>>)>>,
      <<Unit("basic", <<0, 5>>),
        Unit("header", <<0, 0, 26, 0, 0, 3, 9, 1, 0, 0, 0>>),
        Unit("payload", <<1, 2, 3>>)>>,
      <<Unit("basic", <<3>>),
        Unit("header", <<255, 255, 255, 0, 0, 3, 9, 1, 0, 0, 0>>),
        Unit("extended", <<1, 0, 0, 0>>),
        Unit("payload", <<1, 2, 3>>)>> }

\* where the transport may end inside a unit of n bytes: before its first
\* byte, after its first byte, before its last byte
CutChoices(n) == {k \in {0, 1, n - 1} : k < n}

InitClient ==
    /\ rbuf = <<>>
    /\ closed = FALSE
    /\ wbuf = <<>>
    /\ chunks = <<>>
    /\ inChunkSize = defaultChunkSize
    /\ outChunkSize = defaultChunkSize
    /\ transactions = <<>>
    /\ crashed = FALSE
    /\ ret = NoRet
    /\ sent = <<>>
    /\ peerChunkSize = defaultChunkSize
    /\ nops = 0
    /\ hs = [NoHandshake EXCEPT !.pc = 1]
    /\ \E s1 \in S1Choices, c \in ChunkUnitChoices :
          pending = [units |-> <<Unit("S0", <<3>>), Unit("S1", s1),
                                 Unit("S2", Pattern(1536, 9))>> \o c,
                     cut |-> "none"]
    /\ amf = NoAmf
    /\ flv = NoFlv
    /\ krps = NoKrps
    /\ call = NoCall

protocolVars ==
    <<wbuf, chunks, inChunkSize, outChunkSize, transactions, crashed, ret,
      sent, peerChunkSize, nops>>

\* The peer writes its next unit.
PeerWriteUnit ==
    /\ ~closed
    /\ pending.units # <<>>
    /\ rbuf' = rbuf \o Head(pending.units).bytes
    /\ pending' = [pending EXCEPT !.units = Tail(@)]
    /\ UNCHANGED <<closed, hs, amf, flv, call, krps>>
    /\ UNCHANGED protocolVars

\* The transport ends before the peer's next unit is complete.
PeerTruncate ==
    /\ ~closed
    /\ pending.units # <<>>
    /\ \E k \in CutChoices(Len(Head(pending.units).bytes)) :
          rbuf' = rbuf \o Slice(Head(pending.units).bytes, 0, k)
    /\ closed' = TRUE
    /\ pending' = [units |-> <<>>, cut |-> Head(pending.units).kind]
    /\ UNCHANGED <<hs, amf, flv, call, krps>>
    /\ UNCHANGED protocolVars

\* hs.WriteC0S0(c)
ClientWriteC0S0 ==
    /\ Statement = "WriteC0S0"
    /\ hs' = [hs EXCEPT !.out = @ \o WriteC0S0, !.pc = @ + 1]
    /\ UNCHANGED <<rbuf, closed, pending, amf, flv, call, krps>>
    /\ UNCHANGED protocolVars

\* hs.WriteC1S1(c)
ClientWriteC1S1 ==
    /\ Statement = "WriteC1S1"
    /\ \E random \in RandomChoices :
          hs' = [hs EXCEPT !.out = @ \o WriteC1S1(random),
                           !.c1 = WriteC1S1(random), !.pc = @ + 1]
    /\ UNCHANGED <<rbuf, closed, pending, amf, flv, call, krps>>
    /\ UNCHANGED protocolVars

\* hs.ReadC0S0(c): the read waits for its byte, and fails once the
\* transport has ended
ClientReadC0S0 ==
    /\ Statement = "ReadC0S0"
    /\ \E r \in {ReadC0S0(rbuf)} :
          /\ r.err = "short" => closed
          /\ rbuf' = r.rest
          /\ hs' = [hs EXCEPT !.s0 = r.bytes, !.err = r.err,
                              !.pc = IF r.err = "" THEN @ + 1 ELSE @]
    /\ UNCHANGED <<closed, pending, amf, flv, call, krps>>
    /\ UNCHANGED protocolVars

\* s1, err := hs.ReadC1S1(c)
ClientReadC1S1 ==
    /\ Statement = "ReadC1S1"
    /\ \E r \in {ReadC1S1(rbuf)} :
          /\ r.err = "short" => closed
          /\ rbuf' = r.rest
          /\ hs' = [hs EXCEPT !.s1 = r.bytes, !.err = r.err,
                              !.pc = IF r.err = "" THEN @ + 1 ELSE @]
    /\ UNCHANGED <<closed, pending, amf, flv, call, krps>>
    /\ UNCHANGED protocolVars

\* hs.ReadC2S2(c)
ClientReadC2S2 ==
    /\ Statement = "ReadC2S2"
    /\ \E r \in {ReadC2S2(rbuf)} :
          /\ r.err = "short" => closed
          /\ rbuf' = r.rest
          /\ hs' = [hs EXCEPT !.s2 = r.bytes, !.err = r.err,
                              !.pc = IF r.err = "" THEN @ + 1 ELSE @]
    /\ UNCHANGED <<closed, pending, amf, flv, call, krps>>
    /\ UNCHANGED protocolVars

\* hs.WriteC2S2(c, s1)
ClientWriteC2S2 ==
    /\ Statement = "WriteC2S2"
    /\ hs' = [hs EXCEPT !.out = @ \o WriteC2S2(hs.s1), !.pc = @ + 1]
    /\ UNCHANGED <<rbuf, closed, pending, amf, flv, call, krps>>
    /\ UNCHANGED protocolVars

\* ReadMessage of the Protocol made on the transport after the handshake
ClientReadMessage ==
    /\ Statement = "return"
    /\ CallReadMessage

NextClient ==
    \/ PeerWriteUnit
    \/ PeerTruncate
    \/ ClientWriteC0S0
    \/ ClientWriteC1S1
    \/ ClientReadC0S0
    \/ ClientReadC1S1
    \/ ClientReadC2S2
    \/ ClientWriteC2S2
    \/ ClientReadMessage

SpecClient == InitClient /\ [][NextClient]_vars

\* the units of a chunk
ChunkUnits == {"basic", "header", "extended", "payload"}

\* C13: when the transport ends before a unit of fixed size is complete (S0,
\* S1 or S2 of the handshake, a chunk's basic header, its message header,
\* its 4 bytes of extended timestamp, its payload), the read that comes to
\* that unit returns an error, and no bytes and no message.
C13_ShortRead ==
    [][pending.cut # "none" =>
          /\ (ClientReadC0S0 /\ pending.cut = "S0")
                => (hs'.err # "" /\ hs'.s0 = <<>>)
          /\ (ClientReadC1S1 /\ pending.cut = "S1")
                => (hs'.err # "" /\ hs'.s1 = <<>>)
          /\ (ClientReadC2S2 /\ pending.cut = "S2")
                => (hs'.err # "" /\ hs'.s2 = <<>>)
          /\ (ClientReadMessage /\ pending.cut \in ChunkUnits)
                => (ret'.err # "" /\ ret'.m = Nil)]_vars


\* C19: the client writes C0 (the byte 3), then C1 (1536 bytes, the first 8
\* zero), then reads S0 (1 byte), S1 (1536 bytes) and S2 (1536 bytes), and
\* only then writes C2, which is the S1 it read, byte for byte; it writes
\* nothing else, and takes no step out of this order.
C19_HandshakeOrder ==
    /\ \/ hs.out = <<>>
       \/ hs.out = <<3>>
       \/ hs.out = <<3>> \o hs.c1
       \/ hs.out = <<3>> \o hs.c1 \o hs.s1
    /\ Len(hs.out) > 1 =>
          (Len(hs.c1) = 1536 /\ \A i \in 1..8 : hs.c1[i] = 0)
    /\ hs.s0 # <<>> => (Len(hs.out) >= 1537 /\ Len(hs.s0) = 1)
    /\ hs.s1 # <<>> => (hs.s0 # <<>> /\ Len(hs.s1) = 1536)
    /\ hs.s2 # <<>> => (hs.s1 # <<>> /\ Len(hs.s2) = 1536)
    /\ Len(hs.out) > 1537 => (hs.s2 # <<>> /\ Len(hs.out) = 3073)

\* the client has returned from its handshake, having echoed the S1 of the
\* server in its C2
C19_Witness ==
    /\ Statement = "return"
    /\ hs.s0 = <<3>>
    /\ hs.s1 = Pattern(1536, 50)
    /\ hs.s2 = Pattern(1536, 9)
    /\ hs.out = <<3>> \o WriteC1S1(Pattern(1528, 7)) \o Pattern(1536, 50)

---------------------------------------------------------------------------
(* Package amf0: a value is made, built up with Set, marshalled, and       *)
(* unmarshalled from its bytes into the value Discovery makes for them.    *)

\* how many Set calls build a value
MaxSets == 3

\* "k1", "k2"
Key1 == <<107, 49>>
Key2 == <<107, 50>>

\* the values a caller starts from
FreshValues ==
    { NewNumber(Number1), NewNumber(Number2), NewBoolean(TRUE),
      NewBoolean(FALSE), NewString(<<>>), NewString(Text(3)), NewNull,
      NewUndefined, NewObject, NewEcmaArray, NewStrictArray }

\* the values a caller sets as properties
PropertyValues ==
    { NewNumber(Number1), NewString(Text(3)), NewBoolean(TRUE),
      NewStrictArray }

IsContainer(a) ==
    a.marker \in {markerObject, markerEcmaArray, markerStrictArray}

InitAmf0 ==
    /\ rbuf = <<>>
    /\ closed = FALSE
    /\ wbuf = <<>>
    /\ chunks = <<>>
    /\ inChunkSize = defaultChunkSize
    /\ outChunkSize = defaultChunkSize
    /\ transactions = <<>>
    /\ crashed = FALSE
    /\ ret = NoRet
    /\ sent = <<>>
    /\ peerChunkSize = defaultChunkSize
    /\ nops = 0
    /\ hs = NoHandshake
    /\ pending = NoPending
    /\ \E a \in FreshValues : amf = [NoAmf EXCEPT !.v = a, !.op = "New"]
    /\ flv = NoFlv
    /\ krps = NoKrps
    /\ call = NoCall

\* v.Set(key, value) on the Object, EcmaArray or StrictArray v
AmfSet ==
    /\ amf.op \in {"New", "Set"}
    /\ IsContainer(amf.v)
    /\ amf.nsets < MaxSets
    /\ \E key \in {Key1, Key2}, value \in PropertyValues :
          amf' = [amf EXCEPT
                     !.v.properties = Set(@, key, value),
                     !.calls = Append(@, [key |-> key, value |-> value]),
                     !.nsets = @ + 1,
                     !.op = "Set"]
    /\ UNCHANGED <<rbuf, closed, hs, pending, flv, call, krps>>
    /\ UNCHANGED protocolVars

\* c.Set(key, v) on a new Object, EcmaArray or StrictArray c, which is the
\* value from then on
AmfSetInto ==
    /\ amf.op \in {"New", "Set"}
    /\ amf.nsets < MaxSets
    /\ \E key \in {Key1, Key2},
          c \in {NewObject, NewEcmaArray, NewStrictArray} :
          amf' = [amf EXCEPT
                     !.v = [c EXCEPT !.properties = Set(@, key, amf.v)],
                     !.calls = <<[key |-> key, value |-> amf.v]>>,
                     !.nsets = @ + 1,
                     !.op = "Set"]
    /\ UNCHANGED <<rbuf, closed, hs, pending, flv, call, krps>>
    /\ UNCHANGED protocolVars

\* data, _ := v.MarshalBinary()
AmfMarshal ==
    /\ amf.op \in {"New", "Set"}
    /\ amf' = [amf EXCEPT !.data = MarshalBinary(amf.v),
                          !.op = "MarshalBinary"]
    /\ UNCHANGED <<rbuf, closed, hs, pending, flv, call, krps>>
    /\ UNCHANGED protocolVars

\* a, err := Discovery(data), then a.UnmarshalBinary(data): d is what
\* Discovery gave
discovered(d, data) ==
    IF d.err # "" THEN [err |-> d.err, v |-> Nil]
    ELSE UnmarshalBinary(d.a, data)

AmfUnmarshal ==
    /\ amf.op = "MarshalBinary"
    /\ amf' = [amf EXCEPT !.back = discovered(Discovery(amf.data), amf.data),
                          !.op = "UnmarshalBinary"]
    /\ UNCHANGED <<rbuf, closed, hs, pending, flv, call, krps>>
    /\ UNCHANGED protocolVars

NextAmf0 ==
    \/ AmfSet
    \/ AmfSetInto
    \/ AmfMarshal
    \/ AmfUnmarshal

SpecAmf0 == InitAmf0 /\ [][NextAmf0]_vars

\* C14: for every value v (Number, Boolean, String, Object, EcmaArray,
\* StrictArray, Null, Undefined, also as a property of an Object, EcmaArray
\* or StrictArray), unmarshalling the bytes that marshalling v gave yields a
\* value equal to v, the properties in the same order, and Size(v) is the
\* number of those bytes.
C14_Amf0RoundTrip ==
    /\ amf.op \in {"MarshalBinary", "UnmarshalBinary"}
          => Size(amf.v) = Len(amf.data)
    /\ amf.op = "UnmarshalBinary"
          => (amf.back.err = "" /\ amf.back.v = amf.v)


\* the index of the first and of the last Set call with key k
FirstCall(calls, k) ==
    CHOOSE i \in 1..Len(calls) :
        calls[i].key = k /\ \A j \in 1..(i - 1) : calls[j].key # k
LastCall(calls, k) ==
    CHOOSE i \in 1..Len(calls) :
        calls[i].key = k /\ \A j \in (i + 1)..Len(calls) : calls[j].key # k

\* the bytes of the properties ps, one after the other: key, then value
RECURSIVE PropertyBytes(_, _)
PropertyBytes(ps, n) ==
    IF n = 0 THEN <<>>
    ELSE PropertyBytes(ps, n - 1)
           \o <<Len(ps[n].key) \div 256, Len(ps[n].key) % 256>> \o ps[n].key
           \o MarshalBinary(ps[n].value)

\* the bytes before the properties of a marshalled container
PrefixLen(a) == IF a.marker = markerObject THEN 1 ELSE 5

\* C15: after any sequence of Set calls the properties are in the order in
\* which their keys were first set, each with the value last set for its
\* key, and no key occurs twice; the marshalled bytes carry the properties
\* in that order.  After Set(k1,a); Set(k2,b); Set(k1,c) they are
\* [(k1,c), (k2,b)].
C15_PropertyOrder ==
    IsContainer(amf.v) =>
        LET ps == amf.v.properties
            cs == amf.calls
        IN  /\ {ps[i].key : i \in 1..Len(ps)} = {cs[i].key : i \in 1..Len(cs)}
            /\ \A i, j \in 1..Len(ps) :
                  i < j => /\ ps[i].key # ps[j].key
                           /\ FirstCall(cs, ps[i].key) < FirstCall(cs, ps[j].key)
            /\ \A i \in 1..Len(ps) :
                  ps[i].value = cs[LastCall(cs, ps[i].key)].value
            /\ amf.op = "MarshalBinary" =>
                  Slice(amf.data, PrefixLen(amf.v),
                        Len(PropertyBytes(ps, Len(ps))))
                     = PropertyBytes(ps, Len(ps))

\* Set(k1, 1.0); Set(k2, "bcd"); Set(k1, true) on an Object, marshalled
C15_Witness ==
    /\ amf.op = "MarshalBinary"
    /\ amf.v.marker = markerObject
    /\ amf.calls = <<[key |-> Key1, value |-> NewNumber(Number1)],
                     [key |-> Key2, value |-> NewString(Text(3))],
                     [key |-> Key1, value |-> NewBoolean(TRUE)]>>
    /\ amf.v.properties = <<[key |-> Key1, value |-> NewBoolean(TRUE)],
                            [key |-> Key2, value |-> NewString(Text(3))]>>
    /\ amf.data = <<3, 0, 2, 107, 49, 1, 1,
                    0, 2, 107, 50, 2, 0, 3, 98, 99, 100, 0, 0, 9>>

---------------------------------------------------------------------------
(* Functions of a byte slice: Discovery and ConnectAppPacket's             *)
(* UnmarshalBinary, each applied to bytes chosen at the start.             *)

\* "Connect"
CommandConnectCapital == <<67, 111, 110, 110, 101, 99, 116>>

CommandNames ==
    {commandConnect, commandResult, CommandConnectCapital, <<>>}

\* 1.0, 2.0, 0.0, -1.0 and the float64 next above 1.0
TransactionIDs ==
    { Number1, Number2, <<0, 0, 0, 0, 0, 0, 0, 0>>,
      <<191, 240, 0, 0, 0, 0, 0, 0>>, <<63, 240, 0, 0, 0, 0, 0, 1>> }

\* The payload of a command: name, transaction id, a command object with
\* the tcUrl, and an args object or none.
ConnectPayload(name, tid, args) ==
    MarshalBinary(NewString(name)) \o MarshalBinary(NewNumber(tid))
    \o MarshalBinary([NewObject EXCEPT
           !.properties = Set(<<>>, KeyTcUrl, NewString(Text(21)))])
    \o (IF args THEN MarshalBinary(NewObject) ELSE <<>>)

\* The byte slices: none, each single byte, each marker before some bytes,
\* the payloads of commands, and such payloads cut short.
DecodeInputs ==
    {<<>>}
    \cup {<<b>> : b \in 0..255}
    \cup {<<b, 0, 1, 97>> : b \in 0..17}
    \cup {ConnectPayload(name, tid, args) :
             name \in CommandNames, tid \in TransactionIDs, args \in BOOLEAN}
    \cup {Slice(ConnectPayload(commandConnect, Number1, FALSE), 0, n) :
             n \in {5, 10, 12, 19, 30}}

InitDecode ==
    /\ rbuf = <<>>
    /\ closed = FALSE
    /\ wbuf = <<>>
    /\ chunks = <<>>
    /\ inChunkSize = defaultChunkSize
    /\ outChunkSize = defaultChunkSize
    /\ transactions = <<>>
    /\ crashed = FALSE
    /\ ret = NoRet
    /\ sent = <<>>
    /\ peerChunkSize = defaultChunkSize
    /\ nops = 0
    /\ hs = NoHandshake
    /\ pending = NoPending
    /\ amf = NoAmf
    /\ flv = NoFlv
    /\ krps = NoKrps
    /\ \E data \in DecodeInputs : call = [NoCall EXCEPT !.data = data]

\* a, err := Discovery(data)
CallDiscovery ==
    /\ \E d \in {Discovery(call.data)} :
          call' = [op |-> "Discovery", data |-> call.data, err |-> d.err,
                   res |-> d.a]
    /\ UNCHANGED <<rbuf, closed, hs, pending, amf, flv, krps>>
    /\ UNCHANGED protocolVars

\* pkt := NewConnectAppPacket(); err := pkt.UnmarshalBinary(data)
CallConnectUnmarshal ==
    /\ \E r \in {PacketUnmarshal(NewConnectAppPacket, call.data)} :
          call' = [op |-> "ConnectAppPacket.UnmarshalBinary",
                   data |-> call.data, err |-> r.err, res |-> r.pkt]
    /\ UNCHANGED <<rbuf, closed, hs, pending, amf, flv, krps>>
    /\ UNCHANGED protocolVars

NextDecode ==
    \/ CallDiscovery
    \/ CallConnectUnmarshal

SpecDecode == InitDecode /\ [][NextDecode]_vars

\* the markers Discovery has a value for
SupportedMarkers == {0, 1, 2, 3, 5, 6, 8, 9, 10}

\* C16: Discovery goes by the first byte: for each of the marker bytes 0, 1,
\* 2, 3, 5, 6, 8, 9, 10 it returns, without error, a value with that marker;
\* for any other first byte an error and no value; for no bytes at all the
\* error that the data is not enough.
C16_Discovery ==
    call.op = "Discovery" =>
        IF Len(call.data) = 0
        THEN call.err = "data is not enough" /\ call.res = Nil
        ELSE IF call.data[1] \in SupportedMarkers
        THEN /\ call.err = ""
             /\ call.res # Nil
             /\ call.res.marker = call.data[1]
        ELSE call.err \notin {"", "data is not enough"} /\ call.res = Nil

\* Discovery has refused the marker of a movie clip
C16_Witness ==
    /\ call.op = "Discovery"
    /\ call.data = <<4, 0, 1, 97>>
    /\ call.err = "is illegal"
    /\ call.res = Nil

\* C20: ConnectAppPacket.UnmarshalBinary succeeds only when the command name
\* it decodes is "connect" and the transaction id it decodes is 1.0; with
\* any other command name or transaction id it returns an error.
C20_ConnectUnmarshal ==
    call.op = "ConnectAppPacket.UnmarshalBinary" =>
        /\ call.err = "" => /\ call.res.CommandName = commandConnect
                            /\ call.res.TransactionID = Number1
        /\ \A name \in CommandNames, tid \in TransactionIDs, args \in BOOLEAN :
              call.data = ConnectPayload(name, tid, args) =>
                  (call.err = "" <=> (name = commandConnect /\ tid = Number1))

\* a connect with the transaction id 2.0 has been refused
C20_Witness ==
    /\ call.op = "ConnectAppPacket.UnmarshalBinary"
    /\ call.data = ConnectPayload(commandConnect, Number2, TRUE)
    /\ call.err = "Invalid transaction ID"

---------------------------------------------------------------------------
(* Package flv: a muxer writing an FLV file and a demuxer reading it.      *)
(* flv.start is what the file held before the muxer, flv.file the file,    *)
(* flv.calls the muxer's calls, flv.rest what the demuxer's reader has     *)
(* left, flv.got what the demuxer's calls returned, flv.last the tag       *)
(* header read last and flv.err the demuxer's first error.                 *)

MaxMuxCalls == 3
MaxDemuxCalls == 5

TagTypeForbidden == 0
TagTypeAudio == 8
TagTypeVideo == 9
TagTypeScriptData == 18

errSignature == "FLV signatures are illegal"

\* 'F', 'L', 'V'
Signature == <<70, 76, 86>>

\* muxer.WriteHeader: the 13 bytes it writes
WriteHeader(hasVideo, hasAudio) ==
    Signature
    \o <<1, (IF hasVideo THEN 1 ELSE 0) + (IF hasAudio THEN 4 ELSE 0)>>
    \o <<0, 0, 0, 9>> \o <<0, 0, 0, 0>>

\* A WriteTag that writes the timestamp as 4 bytes, most significant first.
WriteTagPlain(tagType, timestamp, tag) ==
    <<Byte(tagType)>> \o Uint24Bytes(Len(tag))
    \o BigEndianPutUint32(timestamp)
    \o <<0, 0, 0>> \o tag \o BigEndianPutUint32(11 + Len(tag))

\* muxer.WriteTag: the tag header, the tag and the previous tag size
WriteTag(tagType, timestamp, tag) ==
    <<Byte(tagType)>> \o Uint24Bytes(Len(tag))
    \o Uint24Bytes(timestamp) \o <<Byte(timestamp \div 16777216)>>
    \o <<0, 0, 0>> \o tag \o BigEndianPutUint32(11 + Len(tag))

\* A ReadHeader that does not look at the signature.
ReadHeaderAny(buf) ==
    IF CopyN(buf, 13).err # ""
    THEN [op |-> "ReadHeader", version |-> 0, hasVideo |-> FALSE,
          hasAudio |-> FALSE, err |-> CopyN(buf, 13).err, rest |-> <<>>]
    ELSE [op |-> "ReadHeader", version |-> buf[4],
          hasVideo |-> buf[5] % 2 = 1, hasAudio |-> (buf[5] \div 4) % 2 = 1,
          err |-> "", rest |-> Drop(buf, 13)]

\* demuxer.ReadHeader on a reader that holds buf
ReadHeader(buf) ==
    IF CopyN(buf, 13).err # ""
    THEN [op |-> "ReadHeader", version |-> 0, hasVideo |-> FALSE,
          hasAudio |-> FALSE, err |-> CopyN(buf, 13).err, rest |-> <<>>]
    ELSE IF Slice(buf, 0, 3) # Signature
    THEN [op |-> "ReadHeader", version |-> 0, hasVideo |-> FALSE,
          hasAudio |-> FALSE, err |-> errSignature, rest |-> Drop(buf, 13)]
    ELSE [op |-> "ReadHeader", version |-> buf[4],
          hasVideo |-> buf[5] % 2 = 1, hasAudio |-> (buf[5] \div 4) % 2 = 1,
          err |-> "", rest |-> Drop(buf, 13)]

\* demuxer.ReadTagHeader on a reader that holds buf
ReadTagHeader(buf) ==
    IF CopyN(buf, 11).err # ""
    THEN [op |-> "ReadTagHeader", tagType |-> 0, tagSize |-> 0,
          timestamp |-> 0, err |-> CopyN(buf, 11).err, rest |-> <<>>]
    ELSE [op |-> "ReadTagHeader", tagType |-> buf[1],
          tagSize |-> buf[2] * 65536 + buf[3] * 256 + buf[4],
          timestamp |-> U32(buf[8], buf[5], buf[6], buf[7]),
          err |-> "", rest |-> Drop(buf, 11)]

\* demuxer.ReadTag(tagSize) on a reader that holds buf, for a tagSize
\* below 2^32 - 4
ReadTag(buf, tagSize) ==
    IF CopyN(buf, tagSize + 4).err # ""
    THEN [op |-> "ReadTag", tagSize |-> tagSize, tag |-> <<>>,
          err |-> CopyN(buf, tagSize + 4).err, rest |-> <<>>]
    ELSE [op |-> "ReadTag", tagSize |-> tagSize,
          tag |-> Slice(buf, 0, tagSize), err |-> "",
          rest |-> Drop(buf, tagSize + 4)]

\* The tags a muxer is given: each type, timestamps that need each of the
\* four bytes, bodies of 0, 1, 2, 3 and 257 bytes.
TagChoices ==
    { [op |-> "WriteTag", tagType |-> TagTypeAudio, timestamp |-> 0,
       tag |-> <<>>],
      [op |-> "WriteTag", tagType |-> TagTypeVideo, timestamp |-> 66051,
       tag |-> <<1>>],
      [op |-> "WriteTag", tagType |-> TagTypeScriptData,
       timestamp |-> U32(1, 0, 0, 5), tag |-> Pattern(257, 0)],
      [op |-> "WriteTag", tagType |-> TagTypeForbidden,
       timestamp |-> U32(255, 255, 255, 255), tag |-> <<7, 8>>],
      [op |-> "WriteTag", tagType |-> TagTypeVideo,
       timestamp |-> U32(128, 0, 0, 0), tag |-> Pattern(3, 9)] }

\* 13 bytes with a signature, a version and flags
HeaderBytes(signature, version, flags) ==
    signature \o <<version, flags>> \o <<0, 0, 0, 9>> \o <<0, 0, 0, 0>>

\* "FLV", "flv", "FLX", "XLV", "FXV" and three zero bytes
SignatureChoices ==
    { Signature, <<102, 108, 118>>, <<70, 76, 88>>, <<88, 76, 86>>,
      <<70, 88, 86>>, <<0, 0, 0>> }

\* The files at the start: a new one for a muxer, and for a demuxer files of
\* 13 bytes and a header cut short.
FileChoices ==
    {<<>>}
    \cup {HeaderBytes(signature, version, flags) :
             signature \in SignatureChoices, version \in {0, 1, 255},
             flags \in {0, 1, 2, 4, 5, 250, 255}}
    \cup {Slice(WriteHeader(TRUE, TRUE), 0, 12)}

InitFlv ==
    /\ rbuf = <<>>
    /\ closed = FALSE
    /\ wbuf = <<>>
    /\ chunks = <<>>
    /\ inChunkSize = defaultChunkSize
    /\ outChunkSize = defaultChunkSize
    /\ transactions = <<>>
    /\ crashed = FALSE
    /\ ret = NoRet
    /\ sent = <<>>
    /\ peerChunkSize = defaultChunkSize
    /\ nops = 0
    /\ hs = NoHandshake
    /\ pending = NoPending
    /\ amf = NoAmf
    /\ call = NoCall
    /\ krps = NoKrps
    /\ \E file \in FileChoices :
          flv = [NoFlv EXCEPT !.start = file, !.file = file]

\* m.WriteHeader(hasVideo, hasAudio), of a muxer on a new file
MuxWriteHeader ==
    /\ flv.start = <<>> /\ ~flv.opened
    /\ Len(flv.calls) < MaxMuxCalls
    /\ \E hasVideo \in BOOLEAN, hasAudio \in BOOLEAN :
          flv' = [flv EXCEPT
              !.file = @ \o WriteHeader(hasVideo, hasAudio),
              !.calls = Append(@, [op |-> "WriteHeader",
                                   hasVideo |-> hasVideo,
                                   hasAudio |-> hasAudio])]
    /\ UNCHANGED <<rbuf, closed, hs, pending, amf, call, krps>>
    /\ UNCHANGED protocolVars

\* m.WriteTag(tagType, timestamp, tag), of a muxer on a new file
MuxWriteTag ==
    /\ flv.start = <<>> /\ ~flv.opened
    /\ Len(flv.calls) < MaxMuxCalls
    /\ \E t \in TagChoices :
          flv' = [flv EXCEPT
              !.file = @ \o WriteTag(t.tagType, t.timestamp, t.tag),
              !.calls = Append(@, t)]
    /\ UNCHANGED <<rbuf, closed, hs, pending, amf, call, krps>>
    /\ UNCHANGED protocolVars

\* d := NewDemuxer(r) with a reader r of the file
CallNewDemuxer ==
    /\ ~flv.opened
    /\ flv' = [flv EXCEPT !.opened = TRUE, !.rest = flv.file]
    /\ UNCHANGED <<rbuf, closed, hs, pending, amf, call, krps>>
    /\ UNCHANGED protocolVars

\* the demuxer after a call that returned r
Returned(r) ==
    [flv EXCEPT !.rest = r.rest,
                !.got = Append(@, [f \in DOMAIN r \ {"rest"} |-> r[f]]),
                !.err = r.err]

\* version, hasVideo, hasAudio, err := d.ReadHeader()
DemuxReadHeader ==
    /\ flv.opened /\ flv.err = ""
    /\ Len(flv.got) < MaxDemuxCalls
    /\ flv' = Returned(ReadHeader(flv.rest))
    /\ UNCHANGED <<rbuf, closed, hs, pending, amf, call, krps>>
    /\ UNCHANGED protocolVars

\* tagType, tagSize, timestamp, err := d.ReadTagHeader()
DemuxReadTagHeader ==
    /\ flv.opened /\ flv.err = ""
    /\ Len(flv.got) < MaxDemuxCalls
    /\ \E r \in {ReadTagHeader(flv.rest)} :
          flv' = [Returned(r) EXCEPT
                     !.last = [f \in DOMAIN r \ {"rest"} |-> r[f]]]
    /\ UNCHANGED <<rbuf, closed, hs, pending, amf, call, krps>>
    /\ UNCHANGED protocolVars

\* tag, err := d.ReadTag(tagSize) with the tagSize of the tag header read
\* last
DemuxReadTag ==
    /\ flv.opened /\ flv.err = ""
    /\ Len(flv.got) < MaxDemuxCalls
    /\ flv.last # Nil
    /\ flv' = Returned(ReadTag(flv.rest, flv.last.tagSize))
    /\ UNCHANGED <<rbuf, closed, hs, pending, amf, call, krps>>
    /\ UNCHANGED protocolVars

NextFlv ==
    \/ MuxWriteHeader
    \/ MuxWriteTag
    \/ CallNewDemuxer
    \/ DemuxReadHeader
    \/ DemuxReadTagHeader
    \/ DemuxReadTag

SpecFlv == InitFlv /\ [][NextFlv]_vars

\* the muxer wrote a new file with WriteHeader and then tags only
MuxedInOrder ==
    /\ flv.start = <<>>
    /\ Len(flv.calls) >= 1
    /\ flv.calls[1].op = "WriteHeader"
    /\ \A i \in 2..Len(flv.calls) : flv.calls[i].op = "WriteTag"

\* the demuxer ran ReadHeader and then ReadTagHeader and ReadTag(tagSize) by
\* turns, for no more tags than were written
DemuxedInOrder ==
    /\ Len(flv.got) <= 2 * Len(flv.calls) - 1
    /\ \A j \in 1..Len(flv.got) :
          flv.got[j].op = IF j = 1 THEN "ReadHeader"
                          ELSE IF j % 2 = 0 THEN "ReadTagHeader"
                          ELSE "ReadTag"

\* C17: when a new file is written with WriteHeader and then N WriteTag
\* calls, a demuxer on its bytes that runs ReadHeader and then, up to N
\* times, ReadTagHeader and ReadTag(tagSize) gets no error, the flags that
\* were written and, in the order written, each tag's type, timestamp, size
\* and body; after the N-th tag it has consumed every byte.
C17_FlvRoundTrip ==
    (MuxedInOrder /\ DemuxedInOrder) =>
        /\ \A j \in 1..Len(flv.got) :
              /\ flv.got[j].err = ""
              /\ j = 1 => /\ flv.got[1].hasVideo = flv.calls[1].hasVideo
                          /\ flv.got[1].hasAudio = flv.calls[1].hasAudio
              /\ (j > 1 /\ j % 2 = 0) =>
                    /\ flv.got[j].tagType = flv.calls[j \div 2 + 1].tagType
                    /\ flv.got[j].timestamp
                           = flv.calls[j \div 2 + 1].timestamp
                    /\ flv.got[j].tagSize
                           = Len(flv.calls[j \div 2 + 1].tag)
              /\ (j > 1 /\ j % 2 = 1) =>
                    flv.got[j].tag = flv.calls[j \div 2 + 1].tag
        /\ Len(flv.got) = 2 * Len(flv.calls) - 1 => flv.rest = <<>>

\* two tags, one of 257 bytes and one with the timestamp 0xffffffff, have
\* been written and read back
C17_Witness ==
    /\ MuxedInOrder /\ DemuxedInOrder
    /\ Len(flv.calls) = 3
    /\ Len(flv.got) = 5
    /\ flv.calls[2].tag = Pattern(257, 0)
    /\ flv.calls[3].timestamp = U32(255, 255, 255, 255)
    /\ flv.got[3].tag = Pattern(257, 0)
    /\ flv.got[4].timestamp = U32(255, 255, 255, 255)
    /\ flv.got[5].tag = <<7, 8>>
    /\ flv.rest = <<>>

\* C18: ReadHeader on 13 bytes that do not start with 'F', 'L', 'V' returns
\* the signature error, version 0 and both flags false; on 13 bytes that do,
\* it returns no error, the fourth byte as the version, bit 0 of the fifth
\* byte as hasVideo and bit 2 of the fifth byte as hasAudio.
C18_ReadHeader ==
    (Len(flv.got) >= 1 /\ flv.got[1].op = "ReadHeader"
        /\ Len(flv.file) >= 13) =>
        IF Slice(flv.file, 0, 3) # <<70, 76, 86>>
        THEN /\ flv.got[1].err = errSignature
             /\ flv.got[1].version = 0
             /\ ~flv.got[1].hasVideo
             /\ ~flv.got[1].hasAudio
        ELSE /\ flv.got[1].err = ""
             /\ flv.got[1].version = flv.file[4]
             /\ flv.got[1].hasVideo <=> (flv.file[5] % 2 = 1)
             /\ flv.got[1].hasAudio <=> ((flv.file[5] \div 4) % 2 = 1)

\* ReadHeader has refused a file that starts with "FLX"
C18_Witness ==
    /\ flv.file = <<70, 76, 88, 1, 5, 0, 0, 0, 9, 0, 0, 0, 0>>
    /\ Len(flv.got) = 1
    /\ flv.got[1].op = "ReadHeader"
    /\ flv.got[1].err = errSignature
    /\ flv.got[1].version = 0

---------------------------------------------------------------------------
(* Package kxps: a krps on a source of requests.  Time is counted in       *)
(* microseconds from the start; krps.now is the clock, krps.source the     *)
(* source's NbRequests().  A float64 is held as the fraction it was        *)
(* computed from, in lowest terms.  krps.sampled holds the windows whose   *)
(* sample() returned true in the last doSample, krps.seen the count and    *)
(* the time given to the doSample that last sampled or initialised each    *)
(* window, krps.first those given to the first sampleAverage with a count  *)
(* other than 0.                                                           *)

MaxTicks == 4

\* time.Millisecond and time.Second
Millisecond == 1000
Second == 1000000

RECURSIVE Gcd(_, _)
Gcd(a, b) == IF b = 0 THEN a ELSE Gcd(b, a % b)

\* float64(num) / float64(den), for num >= 0 and den > 0
Rate(num, den) == [num |-> num \div Gcd(num, den), den |-> den \div Gcd(num, den)]

Windows == {"r10s", "r30s", "r300s"}

\* NewKrps(ctx, s)
NewKrps ==
    [NoKrps EXCEPT !.r10s.interval = 10 * Second,
                   !.r30s.interval = 30 * Second,
                   !.r300s.interval = 300 * Second]

\* sample.initialize
initialize(v, now, nbRequests) ==
    [v EXCEPT !.nbRequests = nbRequests, !.lastSample = now, !.create = now]

\* A sample.sample that keeps the count it was initialised with.
sampleKeeping(v, now, nbRequests) ==
    IF v.lastSample + v.interval > now THEN [ok |-> FALSE, v |-> v]
    ELSE IF nbRequests - v.nbRequests <= 0
    THEN [ok |-> TRUE,
          v |-> [v EXCEPT !.lastSample = now, !.rps = Rate(0, 1)]]
    ELSE [ok |-> TRUE,
          v |-> [v EXCEPT !.lastSample = now,
                     !.rps = Rate((nbRequests - v.nbRequests) * 1000,
                                  v.interval \div Millisecond)]]

\* sample.sample: whether it sampled, and the sample afterwards.  The counts
\* differ by less than 2^63, so that int64(nbRequests - v.nbRequests) is
\* their difference.
sample(v, now, nbRequests) ==
    IF v.lastSample + v.interval > now THEN [ok |-> FALSE, v |-> v]
    ELSE IF nbRequests - v.nbRequests <= 0
    THEN [ok |-> TRUE,
          v |-> [v EXCEPT !.nbRequests = nbRequests, !.lastSample = now,
                          !.rps = Rate(0, 1)]]
    ELSE [ok |-> TRUE,
          v |-> [v EXCEPT !.nbRequests = nbRequests, !.lastSample = now,
                     !.rps = Rate((nbRequests - v.nbRequests) * 1000,
                                  v.interval \div Millisecond)]]

\* krps.doSample after its three calls of sample returned s10, s30, s300:
\* each window is sampled only when the ones before it were
sampled3(k, s10, s30, s300) ==
    IF ~s10.ok THEN [k EXCEPT !.sampled = {}]
    ELSE IF ~s30.ok THEN [k EXCEPT !.r10s = s10.v, !.sampled = {"r10s"}]
    ELSE IF ~s300.ok
    THEN [k EXCEPT !.r10s = s10.v, !.r30s = s30.v,
                   !.sampled = {"r10s", "r30s"}]
    ELSE [k EXCEPT !.r10s = s10.v, !.r30s = s30.v, !.r300s = s300.v,
                   !.sampled = Windows]

\* krps.doSample(now)
doSample(k, now) ==
    IF k.source = 0 THEN [k EXCEPT !.sampled = {}]
    ELSE IF k.r10s.nbRequests = 0
    THEN [k EXCEPT !.r10s = initialize(@, now, k.source),
                   !.r30s = initialize(@, now, k.source),
                   !.r300s = initialize(@, now, k.source),
                   !.sampled = {}]
    ELSE sampled3(k, sample(k.r10s, now, k.source),
                  sample(k.r30s, now, k.source),
                  sample(k.r300s, now, k.source))

\* A sampleAverage that takes a new baseline at every call.
sampleAverageRebase(k, now) ==
    IF k.source = 0 THEN [k EXCEPT !.ret = Rate(0, 1)]
    ELSE [k EXCEPT !.average = k.source, !.create = now,
                   !.ret = Rate(0, 1)]

\* krps.sampleAverage(now): k.ret is what it returns
sampleAverage(k, now) ==
    IF k.source = 0 THEN [k EXCEPT !.ret = Rate(0, 1)]
    ELSE IF k.average = 0
    THEN [k EXCEPT !.average = k.source, !.create = now,
                   !.ret = Rate(0, 1)]
    ELSE IF k.source - k.average <= 0 THEN [k EXCEPT !.ret = Rate(0, 1)]
    ELSE IF (now - k.create) \div Millisecond <= 0
    THEN [k EXCEPT !.ret = Rate(0, 1)]
    ELSE [k EXCEPT !.ret = Rate((k.source - k.average) * 1000,
                                (now - k.create) \div Millisecond)]

MaxRequests == 40

\* how many requests the source serves between calls
ServeChoices == {10}

\* how far the clock moves between calls
TickChoices == {700, 10 * Second, 30 * Second, 270 * Second}

InitKrps ==
    /\ rbuf = <<>>
    /\ closed = FALSE
    /\ wbuf = <<>>
    /\ chunks = <<>>
    /\ inChunkSize = defaultChunkSize
    /\ outChunkSize = defaultChunkSize
    /\ transactions = <<>>
    /\ crashed = FALSE
    /\ ret = NoRet
    /\ sent = <<>>
    /\ peerChunkSize = defaultChunkSize
    /\ nops = 0
    /\ hs = NoHandshake
    /\ pending = NoPending
    /\ amf = NoAmf
    /\ flv = NoFlv
    /\ call = NoCall
    /\ krps = NewKrps

\* s.s += n, of the mockSource: NbRequests() is a total
SourceServe ==
    /\ \E n \in ServeChoices :
          /\ krps.source + n <= MaxRequests
          /\ krps' = [krps EXCEPT !.source = @ + n, !.op = "serve"]
    /\ UNCHANGED <<rbuf, closed, hs, pending, amf, flv, call>>
    /\ UNCHANGED protocolVars

\* time passes
ClockTick ==
    /\ krps.ticks < MaxTicks
    /\ \E d \in TickChoices :
          krps' = [krps EXCEPT !.now = @ + d, !.ticks = @ + 1, !.op = "tick"]
    /\ UNCHANGED <<rbuf, closed, hs, pending, amf, flv, call>>
    /\ UNCHANGED protocolVars

\* the count and the time of this call, for the windows it sampled or
\* initialised
Seen(k, after) ==
    IF k.source # 0 /\ k.r10s.nbRequests = 0
    THEN [w \in Windows |-> [count |-> k.source, at |-> k.now]]
    ELSE IF k.seen = Nil THEN Nil
    ELSE [w \in Windows |->
             IF w \in after.sampled
             THEN [count |-> k.source, at |-> k.now] ELSE k.seen[w]]

\* err := krps.doSample(now)
CallDoSample ==
    /\ \E after \in {doSample(krps, krps.now)} :
          krps' = [after EXCEPT !.op = "doSample", !.seen = Seen(krps, after)]
    /\ UNCHANGED <<rbuf, closed, hs, pending, amf, flv, call>>
    /\ UNCHANGED protocolVars

\* v := krps.sampleAverage(now)
CallSampleAverage ==
    /\ krps' = [sampleAverage(krps, krps.now) EXCEPT
                   !.op = "sampleAverage",
                   !.first = IF krps.first = Nil /\ krps.source # 0
                             THEN [count |-> krps.source, at |-> krps.now]
                             ELSE @]
    /\ UNCHANGED <<rbuf, closed, hs, pending, amf, flv, call>>
    /\ UNCHANGED protocolVars

NextKrps ==
    \/ SourceServe
    \/ ClockTick
    \/ CallDoSample

SpecKrps == InitKrps /\ [][NextKrps]_vars

NextAverage ==
    \/ SourceServe
    \/ ClockTick
    \/ CallSampleAverage

SpecAverage == InitKrps /\ [][NextAverage]_vars


\* the intervals of the windows, in seconds
WindowSeconds == [r10s |-> 10, r30s |-> 30, r300s |-> 300]

\* a step that is a call of doSample
DoSampleStep == krps'.op = "doSample" /\ krps' # krps

\* the windows of a doSample call were initialised by an earlier call
Initialised == krps.seen # Nil

\* What a call of doSample samples and what a sample sets, window w.
SamplesRight(w) ==
    w \in krps'.sampled =>
        /\ krps.source # 0
        /\ Initialised
        /\ krps.now - krps.seen[w].at >= WindowSeconds[w] * Second
        /\ \A u \in Windows :
              WindowSeconds[u] < WindowSeconds[w] => u \in krps'.sampled
        /\ krps'[w].rps =
              IF krps.source > krps.seen[w].count
              THEN Rate(krps.source - krps.seen[w].count, WindowSeconds[w])
              ELSE Rate(0, 1)

\* window w keeps its baseline count and its last-sample time
KeepsBaseline(w) ==
    /\ krps'[w].nbRequests = krps[w].nbRequests
    /\ krps'[w].lastSample = krps[w].lastSample

\* C21 (as stated): a call of doSample samples a window W only if the count
\* is not 0, the windows were initialised by an earlier call, W's interval
\* has elapsed since W's last sample and every shorter window is sampled in
\* the same call; then W's rps becomes the growth of the count since W's
\* last sample divided by W's seconds, or 0 without growth; a window that is
\* not sampled keeps its rps, its baseline count and its last-sample time.
C21_Windows ==
    [][DoSampleStep =>
          \A w \in Windows :
             /\ SamplesRight(w)
             /\ w \notin krps'.sampled =>
                   krps'[w].rps = krps[w].rps /\ KeepsBaseline(w)]_vars

\* C21 (amended): as above, but a window that is not sampled keeps its
\* baseline count and its last-sample time only in a call that does not
\* initialise the windows; the call that initialises them (the first with a
\* count other than 0) sets every window's baseline count to the count and
\* its last-sample time to now, and leaves every rps as it was.
C21_WindowsAmended ==
    [][DoSampleStep =>
          \A w \in Windows :
             /\ SamplesRight(w)
             /\ w \notin krps'.sampled =>
                   /\ krps'[w].rps = krps[w].rps
                   /\ IF krps.source # 0 /\ ~Initialised
                      THEN /\ krps'[w].nbRequests = krps.source
                           /\ krps'[w].lastSample = krps.now
                      ELSE KeepsBaseline(w)]_vars

\* all three windows have been sampled in one call, 300 seconds after they
\* were initialised, and the count had grown by 30
C21_Witness ==
    /\ krps.op = "doSample"
    /\ krps.sampled = Windows
    /\ krps.r300s.rps = Rate(30, 300)
    /\ krps.r300s.lastSample = krps.now
    /\ krps.r10s.rps # Rate(0, 1)


\* a step that is a call of sampleAverage
SampleAverageStep == krps'.op = "sampleAverage" /\ krps' # krps

\* whole milliseconds from the baseline time to now
Elapsed == (krps.now - krps.first.at) \div Millisecond

\* C22: sampleAverage(now) returns 0 while the count is 0; the first call
\* with a count other than 0 takes the count and now as the baseline and
\* returns 0; every later call leaves the baseline alone and returns the
\* growth of the count since the baseline times 1000 over the whole
\* milliseconds since the baseline time, or 0 without growth or without a
\* whole millisecond.
C22_Average ==
    [][SampleAverageStep =>
          IF krps.source = 0
          THEN /\ krps'.ret = Rate(0, 1)
               /\ krps'.average = krps.average
               /\ krps'.create = krps.create
          ELSE IF krps.first = Nil
          THEN /\ krps'.ret = Rate(0, 1)
               /\ krps'.average = krps.source
               /\ krps'.create = krps.now
          ELSE /\ krps'.average = krps.first.count
               /\ krps'.create = krps.first.at
               /\ krps'.ret =
                     IF krps.source <= krps.first.count \/ Elapsed <= 0
                     THEN Rate(0, 1)
                     ELSE Rate((krps.source - krps.first.count) * 1000,
                               Elapsed)]_vars

\* 10 requests in the 10 seconds after the baseline: an average of 1
C22_Witness ==
    /\ krps.op = "sampleAverage"
    /\ krps.first # Nil
    /\ krps.source = krps.first.count + 10
    /\ krps.now = krps.first.at + 10 * Second
    /\ krps.ret = Rate(1, 1)

---------------------------------------------------------------------------
(* Chunk by chunk: a peer that writes well-formed chunks on one chunk      *)
(* stream, each with what the peer means by it (the message's timestamp,   *)
(* delta, payload length, type and stream id, and how many payload bytes   *)
(* of the message are still to come), and a reader calling ReadMessage.    *)

MaxRawWrites == 3

\* the chunk stream id of the peer's chunks
RawCid == 3

\* a chunk: its fmt, the fields of its message header and its payload bytes
Raw(format, field, length, type, sid, payload) ==
    [format |-> format, cid |-> RawCid, field |-> field, length |-> length,
     type |-> type, sid |-> sid, payload |-> payload, means |-> Nil]

\* The chunks the peer chooses from: whole messages of 3 and of 5 bytes in
\* chunks of each fmt, the first 128 bytes of a message of 130 bytes, and
\* the last 2 bytes behind a Type3 header and behind Type1 headers that
\* declare the same and another payload length.
RawChoices ==
    { Raw(0, 26, 3, 9, 1, <<1, 2, 3>>),
      Raw(0, 70000, 3, 8, 1, <<1, 2, 3>>),
      Raw(1, 10, 3, 9, 0, <<4, 5, 6>>),
      Raw(1, 10, 5, 8, 0, <<4, 5, 6, 7, 8>>),
      Raw(2, 10, 0, 0, 0, <<7, 8, 9>>),
      Raw(2, 10, 0, 0, 0, <<7, 8, 9, 10, 11>>),
      Raw(3, 0, 0, 0, 0, <<10, 11, 12>>),
      Raw(3, 0, 0, 0, 0, <<10, 11, 12, 13, 14>>),
      Raw(0, 26, 130, 9, 1, Pattern(128, 0)),
      Raw(3, 0, 0, 0, 0, <<129, 130>>),
      Raw(1, 10, 130, 9, 0, <<129, 130>>),
      Raw(1, 10, 131, 9, 0, <<129, 130>>) }

\* the bytes of a chunk on the wire
RawBytes(d) ==
    RawChunk(d.format, d.cid, d.field, d.length, d.type, d.sid, <<>>,
             d.payload)

\* What the peer means by the chunk d after a chunk that meant prev: a chunk
\* inside a message continues it (first is FALSE); a Type0 chunk starts a message with the
\* timestamp of its header, a Type1 or Type2 chunk one with the timestamp
\* advanced by the delta of its header, a Type3 chunk one with the
\* timestamp advanced by the last delta (after a Type0 chunk, its
\* timestamp; base is the fmt of the chunk the delta is from); the fields a
\* header leaves out are those of the message before.
Means(prev, d) ==
    IF prev.left > 0
    THEN [prev EXCEPT !.first = FALSE, !.left = @ - Len(d.payload)]
    ELSE IF d.format = formatType0
    THEN [timestamp |-> d.field, delta |-> d.field, base |-> formatType0,
          length |-> d.length, type |-> d.type, sid |-> d.sid,
          first |-> TRUE, left |-> d.length - Len(d.payload)]
    ELSE IF d.format = formatType1
    THEN [timestamp |-> prev.timestamp + d.field, delta |-> d.field,
          base |-> formatType1, length |-> d.length, type |-> d.type,
          sid |-> prev.sid, first |-> TRUE,
          left |-> d.length - Len(d.payload)]
    ELSE IF d.format = formatType2
    THEN [prev EXCEPT !.timestamp = @ + d.field, !.delta = d.field,
                      !.base = formatType2, !.first = TRUE,
                      !.left = prev.length - Len(d.payload)]
    ELSE [prev EXCEPT !.timestamp = @ + prev.delta, !.first = TRUE,
                      !.left = prev.length - Len(d.payload)]

\* the chunk the peer wrote last: the last one not read yet, or the one
\* read last
LastWritten ==
    IF sent # <<>> THEN sent[Len(sent)]
    ELSE IF ret.op = "ReadMessage" THEN ret.expect
    ELSE Nil

\* a chunk the peer may write after the chunk last: a Type0 chunk at the
\* start of the chunk stream, and a chunk that ends its message or carries
\* 128 bytes of it
WellFormed(last, d) ==
    IF last = Nil
    THEN d.format = formatType0 /\ Len(d.payload) \in {d.length, 128}
    ELSE /\ last.means.left > 0 => d.format # formatType0
         /\ \/ Means(last.means, d).left = 0
            \/ Means(last.means, d).left > 0 /\ Len(d.payload) = 128

\* The peer puts one well-formed chunk on the wire.
PeerWriteRaw ==
    /\ ~closed /\ ~crashed
    /\ nops < MaxRawWrites
    /\ \E d \in RawChoices :
          /\ WellFormed(LastWritten, d)
          /\ rbuf' = rbuf \o RawBytes(d)
          /\ sent' = Append(sent,
                 [d EXCEPT !.means =
                     Means(IF LastWritten = Nil
                           THEN [timestamp |-> 0, delta |-> 0,
                                 base |-> formatType0, length |-> 0,
                                 type |-> 0, sid |-> 0, first |-> TRUE,
                                 left |-> 0]
                           ELSE LastWritten.means, d)])
    /\ nops' = nops + 1
    /\ UNCHANGED <<closed, wbuf, chunks, inChunkSize, outChunkSize,
                   transactions, crashed, ret, peerChunkSize>>
    /\ UNCHANGED elsewhere

NextChunks ==
    \/ PeerWriteRaw
    \/ CallReadMessage

SpecChunks == Init /\ [][NextChunks]_vars

\* ReadMessage has returned the message of the chunk ret.expect, which the
\* peer wrote as a whole message
ReadWhole ==
    /\ ret.op = "ReadMessage"
    /\ ret.expect # Nil
    /\ ret.expect.means.first /\ ret.expect.means.left = 0
    /\ ret.m # Nil

\* C23: the message of a Type0 chunk whose timestamp field is t < 0xFFFFFF
\* has the timestamp t; the message of a Type1 or Type2 chunk whose delta
\* field is d < 0xFFFFFF has the timestamp of the message before it on the
\* chunk stream plus d.
C23_PlainTimestamp ==
    (ReadWhole /\ ret.expect.format <= formatType2
        /\ ret.expect.field < extendedTimestamp) =>
        /\ ret.expect.format = formatType0 =>
              ret.m.timestamp = ret.expect.field
        /\ ret.expect.format # formatType0 =>
              ret.m.timestamp = ret.expect.means.timestamp


\* C24: a message that starts with a Type3 chunk, after a message with a
\* Type0 header of timestamp t < 0xFFFFFF and any number of messages started
\* by Type3 chunks, has the timestamp of the message before it plus t (t + t
\* for the first), and its payload length, type and stream id; a Type3 chunk
\* that continues a partial message is read and leaves the timestamp of the
\* message alone.
C24_Type3Start ==
    /\ (ReadWhole /\ ret.expect.format = formatType3
           /\ ret.expect.means.base = formatType0
           /\ ret.expect.means.delta < extendedTimestamp) =>
          /\ ret.m.timestamp = ret.expect.means.timestamp
          /\ ret.m.payloadLength = ret.expect.means.length
          /\ ret.m.messageType = ret.expect.means.type
          /\ ret.m.streamID = ret.expect.means.sid
    /\ (sent # <<>> /\ Head(sent).format = formatType3
           /\ ~Head(sent).means.first) => ~crashed
    /\ (ret.op = "ReadMessage" /\ ret.expect # Nil /\ ret.m # Nil
           /\ ret.expect.format = formatType3 /\ ~ret.expect.means.first) =>
          ret.m.timestamp = ret.expect.means.timestamp


\* the chunk d is a Type1 chunk inside a message, and declares another
\* payload length than the message has
Type1Changing(d) ==
    /\ d.format = formatType1
    /\ ~d.means.first
    /\ d.length # d.means.length

\* C27: a Type1 chunk that arrives while its chunk stream holds a partial
\* message and declares another payload length is read and makes
\* ReadMessage return a protocol error; a Type1 chunk that starts a message
\* may declare any payload length, which the message then has and the
\* chunk stream keeps.
C27_Type1Length ==
    /\ (sent # <<>> /\ Type1Changing(Head(sent))) => ~crashed
    /\ (ret.op = "ReadMessage" /\ ret.expect # Nil
           /\ Type1Changing(ret.expect)) =>
          ret.err = "size" /\ ret.m = Nil
    /\ (ReadWhole /\ ret.expect.format = formatType1) =>
          /\ ret.err = ""
          /\ ret.m.payloadLength = ret.expect.length
          /\ ret.m.payload = ret.expect.payload
          /\ chunks[ret.expect.cid].header.payloadLength = ret.expect.length

---------------------------------------------------------------------------
(* The headers of a chunk, read from bytes chosen at the start by a        *)
(* Protocol that has read nothing before.                                  *)

\* the values of a 3-byte field: around one, two and three bytes
FieldChoices == {0, 1, 255, 256, 65535, 65536, 70000, 16777214}

\* Type0 headers as generateC0Header writes them, for each timestamp and
\* payload length
C0Headers ==
    { generateC0Header(MessageHeader(0, length, MessageTypeAudio, 1, 3, ts)) :
          ts \in FieldChoices, length \in FieldChoices \cup {16777215} }

\* The bytes to read: each first byte alone and before each of some second
\* and third bytes, and the Type0 headers.
HeaderInputs ==
    {<<b>> : b \in 0..255}
    \cup {<<b, x, y>> : b \in 0..255, x \in {0, 136, 255}, y \in {0, 1, 255}}
    \cup C0Headers

InitHeader ==
    /\ rbuf = <<>>
    /\ closed = FALSE
    /\ wbuf = <<>>
    /\ chunks = <<>>
    /\ inChunkSize = defaultChunkSize
    /\ outChunkSize = defaultChunkSize
    /\ transactions = <<>>
    /\ crashed = FALSE
    /\ ret = NoRet
    /\ sent = <<>>
    /\ peerChunkSize = defaultChunkSize
    /\ nops = 0
    /\ hs = NoHandshake
    /\ pending = NoPending
    /\ amf = NoAmf
    /\ flv = NoFlv
    /\ krps = NoKrps
    /\ \E data \in HeaderInputs : call = [NoCall EXCEPT !.data = data]

\* format, cid, err := v.readBasicHeader()
CallReadBasicHeader ==
    /\ \E r \in {readBasicHeader(call.data)} :
          call' = [op |-> "readBasicHeader", data |-> call.data,
                   err |-> r.err, res |-> r]
    /\ UNCHANGED <<rbuf, closed, hs, pending, amf, flv, krps>>
    /\ UNCHANGED protocolVars

\* ReadMessage as far as readMessageHeader: v.readBasicHeader(), the chunk
\* stream of the cid, err := v.readMessageHeader(chunk, format)
unpackHeader(bh) ==
    IF bh.err # "" THEN [err |-> bh.err, chunk |-> Nil, rest |-> bh.rest]
    ELSE readMessageHeader(chunkOf(<<>>, bh.cid), bh.format, bh.rest)

CallReadMessageHeader ==
    /\ \E r \in {unpackHeader(readBasicHeader(call.data))} :
          call' = [op |-> "readMessageHeader", data |-> call.data,
                   err |-> r.err, res |-> r]
    /\ UNCHANGED <<rbuf, closed, hs, pending, amf, flv, krps>>
    /\ UNCHANGED protocolVars

NextHeader ==
    \/ CallReadBasicHeader
    \/ CallReadMessageHeader

SpecHeader == InitHeader /\ [][NextHeader]_vars

\* the bytes a call has consumed
Consumed == Len(call.data) - Len(call.res.rest)

\* C25: for a first byte b, fmt is b >> 6 and cid0 is b & 0x3F; for cid0 in
\* 2..63 the cid is cid0 and one byte is consumed; for cid0 = 0 the cid is
\* 64 + the next byte and two bytes are consumed; for cid0 = 1 the cid is
\* 64 + the next byte + 256 * the byte after it and three bytes are
\* consumed.
C25_BasicHeader ==
    (call.op = "readBasicHeader" /\ Len(call.data) >= 3) =>
        /\ call.err = ""
        /\ call.res.format = call.data[1] \div 64
        /\ call.data[1] % 64 >= 2 =>
              call.res.cid = call.data[1] % 64 /\ Consumed = 1
        /\ call.data[1] % 64 = 0 =>
              call.res.cid = 64 + call.data[2] /\ Consumed = 2
        /\ call.data[1] % 64 = 1 =>
              /\ call.res.cid = 64 + call.data[2] + 256 * call.data[3]
              /\ Consumed = 3

\* C26: the reader takes the 3-byte timestamp field and the 3-byte payload
\* length field of a Type0 header as big-endian integers: it gets back each
\* timestamp below 0xFFFFFF and each payload length that generateC0Header
\* wrote.
C26_BigEndianFields ==
    call.op = "readMessageHeader" =>
        \A ts \in FieldChoices, length \in FieldChoices \cup {16777215} :
           call.data = generateC0Header(
                           MessageHeader(0, length, MessageTypeAudio, 1, 3, ts))
              => /\ call.err = ""
                 /\ call.res.chunk.header.timestampDelta = ts
                 /\ call.res.chunk.header.payloadLength = length

---------------------------------------------------------------------------
(* The extended timestamp of the chunk writer.                             *)

\* the bytes of wbuf from offset at (from 0), n of them
Written(at, n) == SubSeq(wbuf, at + 1, at + n)

\* the 4 bytes of a timestamp, most significant first
TimestampBytes(ts) ==
    <<(ts \div 16777216) % 256, (ts \div 65536) % 256, (ts \div 256) % 256,
      ts % 256>>

\* where the k-th chunk starts in wbuf (k from 1) when the Type0 header has
\* h0 bytes, each Type3 header h3 bytes and each chunk before it S bytes of
\* payload
ChunkStart(k, h0, h3, S) ==
    IF k = 1 THEN 0 ELSE h0 + S + (k - 2) * (h3 + S)

\* C28: for a message with timestamp >= 0xFFFFFF the Type0 header carries
\* FF FF FF in its 3-byte timestamp field and, after the stream id, the
\* 4-byte big-endian timestamp, and every Type3 continuation header carries
\* the same 4 bytes after its basic header; for a timestamp < 0xFFFFFF the
\* Type0 header is exactly 12 bytes and each Type3 header exactly 1 byte.
C28_ExtendedTimestampWrite ==
    ret.op = "writeMessage" =>
        LET m == ret.m
            S == outChunkSize
            n == NumChunks(Len(m.payload), S)
        IN  IF m.timestamp >= 16777215
            THEN /\ Written(1, 3) = <<255, 255, 255>>
                 /\ Written(12, 4) = TimestampBytes(m.timestamp)
                 /\ Len(wbuf) = 16 + Len(m.payload) + 5 * (n - 1)
                 /\ \A k \in 2..n :
                       /\ wbuf[ChunkStart(k, 16, 5, S) + 1] \div 64 = 3
                       /\ Written(ChunkStart(k, 16, 5, S) + 1, 4)
                             = TimestampBytes(m.timestamp)
                       /\ Written(ChunkStart(k, 16, 5, S) + 5,
                                  Len(ChunkPayload(m.payload, S, k)))
                             = ChunkPayload(m.payload, S, k)
            ELSE /\ Written(1, 3) = SubSeq(TimestampBytes(m.timestamp), 2, 4)
                 /\ Written(12, Len(ChunkPayload(m.payload, S, 1)))
                       = ChunkPayload(m.payload, S, 1)
                 /\ Len(wbuf) = 12 + Len(m.payload) + (n - 1)
                 /\ \A k \in 2..n :
                       /\ wbuf[ChunkStart(k, 12, 1, S) + 1] \div 64 = 3
                       /\ Written(ChunkStart(k, 12, 1, S) + 1,
                                  Len(ChunkPayload(m.payload, S, k)))
                             = ChunkPayload(m.payload, S, k)

\* a message with timestamp 0xFFFFFF and a payload of 257 bytes has been
\* written at chunk size 128: three chunks, the extended timestamp in each
C28_Witness ==
    /\ ret.op = "writeMessage"
    /\ ret.m.timestamp = 16777215
    /\ Len(ret.m.payload) = 257
    /\ outChunkSize = 128
    /\ Len(wbuf) = 16 + 128 + 5 + 128 + 5 + 1
    /\ Written(12, 4) = <<0, 255, 255, 255>>
    /\ Written(16 + 128, 5) = <<195, 0, 255, 255, 255>>

---------------------------------------------------------------------------
(* Values unmarshalled from bytes chosen at the start, and a StrictArray   *)
(* built with Set and marshalled.                                          *)

\* how many bytes follow the head of an Object or EcmaArray
MaxTail == 4

\* the bytes of a tail: markers (Number, Boolean, String, Object, ObjectEnd,
\* Date, TypedObject), lengths and the letter k
TailBytes == {0, 1, 2, 3, 9, 11, 16, 107}

RECURSIVE Tails(_)
\* the byte sequences of at most n bytes
Tails(n) ==
    IF n = 0 THEN {<<>>}
    ELSE LET s == Tails(n - 1)
         IN  s \cup {Append(t, b) : t \in s, b \in TailBytes}

\* the marker of an Object, or the marker and the count of an EcmaArray
ObjectHeads == {<<markerObject>>, <<markerEcmaArray, 0, 0, 0, 0>>,
                <<markerEcmaArray, 0, 0, 0, 1>>}

\* the elements of an array: Null, true, 1.0 and "bcd", by number
Element(i) ==
    CASE i = 1 -> NewNull
      [] i = 2 -> NewBoolean(TRUE)
      [] i = 3 -> NewNumber(Number1)
      [] OTHER -> NewString(Text(3))

\* the arrays of at most two elements, each a sequence of numbers
ElementSeqs ==
    {<<>>} \cup {<<i>> : i \in 1..4} \cup {<<i, j>> : i, j \in 1..4}

\* the values of such an array
Elements(is) == [k \in 1..Len(is) |-> Element(is[k])]

RECURSIVE ValueBytes(_)
\* the bytes of the values vs one after the other, no keys between them
ValueBytes(vs) ==
    IF Len(vs) = 0 THEN <<>>
    ELSE MarshalBinary(Head(vs)) \o ValueBytes(Tail(vs))

\* marker 0x0A, the count in 4 bytes big-endian, the values
StrictArrayBytes(vs) ==
    <<markerStrictArray, 0, 0, 0, Len(vs)>> \o ValueBytes(vs)

\* the bytes that follow an array in the value that encloses it
Trailers == {<<>>, <<markerNull>>, <<0, 0, 9>>}

\* the property of key k or l (one letter) and value Null
NullProperty(letter) == <<0, 1, letter, markerNull>>

\* Objects of no property, one property, the same key twice and two keys;
\* with no terminator, with the terminator, and with an Object after it
KeyedObjects ==
    {<<markerObject>> \o body \o term :
        body \in {<<>>, NullProperty(107),
                  NullProperty(107) \o NullProperty(107),
                  NullProperty(107) \o NullProperty(108)},
        term \in {<<>>, <<0, 0, 9>>, <<0, 0, 9, markerObject, 0, 0, 9>>}}

\* The byte slices: Objects and EcmaArrays with each tail, a key before each
\* marker, Objects of keyed properties, and arrays of values before each
\* trailer.
ByteInputs ==
    {h \o t : h \in ObjectHeads, t \in Tails(MaxTail)}
    \cup {h \o <<0, 1, 107, m>> : h \in ObjectHeads, m \in 0..17}
    \cup KeyedObjects
    \cup {StrictArrayBytes(Elements(is)) \o t :
             is \in ElementSeqs, t \in Trailers}

InitBytes ==
    /\ rbuf = <<>>
    /\ closed = FALSE
    /\ wbuf = <<>>
    /\ chunks = <<>>
    /\ inChunkSize = defaultChunkSize
    /\ outChunkSize = defaultChunkSize
    /\ transactions = <<>>
    /\ crashed = FALSE
    /\ ret = NoRet
    /\ sent = <<>>
    /\ peerChunkSize = defaultChunkSize
    /\ nops = 0
    /\ hs = NoHandshake
    /\ pending = NoPending
    /\ flv = NoFlv
    /\ krps = NoKrps
    /\ \/ /\ amf = [NoAmf EXCEPT !.v = NewStrictArray, !.op = "New"]
          /\ call = NoCall
       \/ /\ amf = NoAmf
          /\ \E data \in ByteInputs : call = [NoCall EXCEPT !.data = data]

\* a, err := Discovery(data), then err = a.UnmarshalBinary(data)
CallUnmarshalBinary ==
    /\ call.data # <<>>
    /\ \E r \in {discovered(Discovery(call.data), call.data)} :
          call' = [op |-> "UnmarshalBinary", data |-> call.data,
                   err |-> r.err, res |-> r.v]
    /\ UNCHANGED <<rbuf, closed, hs, pending, amf, flv, krps>>
    /\ UNCHANGED protocolVars

NextBytes ==
    \/ AmfSet
    \/ AmfMarshal
    \/ CallUnmarshalBinary

SpecBytes == InitBytes /\ [][NextBytes]_vars

\* the values of the properties ps, in order
Values(ps) == [i \in 1..Len(ps) |-> ps[i].value]

\* the values xs are the values ys
SameValues(xs, ys) ==
    /\ Len(xs) = Len(ys)
    /\ \A i \in 1..Len(xs) : xs[i].marker = ys[i].marker /\ xs[i] = ys[i]

\* C29: a StrictArray is encoded as marker 0x0A, a 4-byte big-endian count
\* and then exactly count values with no keys and no terminator;
\* unmarshalling reads exactly count elements and leaves the bytes after
\* them to the enclosing value.
C29_StrictArray ==
    /\ (amf.op = "MarshalBinary" /\ amf.v.marker = markerStrictArray) =>
          amf.data = StrictArrayBytes(Values(amf.v.properties))
    /\ call.op = "UnmarshalBinary" =>
          \A is \in ElementSeqs, t \in Trailers :
             call.data = StrictArrayBytes(Elements(is)) \o t =>
                /\ call.err = ""
                /\ call.res.marker = markerStrictArray
                /\ SameValues(Values(call.res.properties), Elements(is))
                /\ Size(call.res) = Len(StrictArrayBytes(Elements(is)))


\* the bytes before the properties of an Object or EcmaArray in data
HeadLen(data) == IF data[1] = markerObject THEN 1 ELSE 5

\* the markers Discovery knows and has no value for
ReservedMarkers == {7, 11, 12, 13, 15, 16, 17}

\* C30: unmarshalling an Object or EcmaArray from any byte sequence either
\* succeeds or returns an error and never indexes outside the supplied
\* input: also when a non-empty key is followed by marker 9, when the input
\* stops inside a key or value, and when a reserved marker (Date,
\* LongString, XmlDocument, TypedObject) is met, which is reported as an
\* error of Discovery.
C30_NoCrash ==
    (call.op = "UnmarshalBinary"
       /\ call.data[1] \in {markerObject, markerEcmaArray}) =>
        /\ call.err # "panic"
        /\ (/\ Len(call.data) >= HeadLen(call.data) + 4
            /\ Slice(call.data, HeadLen(call.data), 3) = <<0, 1, 107>>
            /\ call.data[HeadLen(call.data) + 4] \in ReservedMarkers)
              => call.err = "Discover prop"

---------------------------------------------------------------------------
(* The messages in the chunk streams of the reader.                        *)

\* ReadMessage has just handed a message to its caller
HandedOut == ret.op = "ReadMessage" /\ ret.err = "" /\ ret.m # Nil

\* the payload bytes of the message of the chunk ReadMessage has just read:
\* those it missed less those the chunk brought
StillMissing == ret.info.left - ret.info.size

\* C31: in every state reached by ReadMessage calls, each chunk stream that
\* holds a partial message has accumulated fewer payload bytes than the
\* payload length of the message, a message is handed to the caller
\* exactly when its accumulated bytes equal its payload length, and the
\* chunk stream holds no partial message right after handing one out.
C31_PartialInvariant ==
    /\ \A c \in DOMAIN chunks :
          chunks[c].message # Nil =>
              Len(chunks[c].message.payload) < chunks[c].message.payloadLength
    /\ HandedOut => Len(ret.m.payload) = ret.m.payloadLength
    /\ (ret.op = "ReadMessage" /\ ret.info.stage = "payload") =>
          (StillMissing = 0 <=> ret.m # Nil)
    /\ HandedOut => chunks[ret.info.cid].message = Nil

\* C33: ReadMessage runs onMessageArrivated only on a completely assembled
\* message: when a chunk leaves its message incomplete, ReadMessage goes on
\* to the next chunk without dereferencing an absent message, and returns
\* the full message once its last chunk has been read.
C33_ArrivatedComplete ==
    /\ (ret.op = "ReadMessage" /\ ret.info.stage = "payload"
          /\ StillMissing > 0) => (ret.err # "panic" /\ ~crashed)
    /\ (ret.op = "ReadMessage" /\ ret.err = "" /\ ret.info.stage = "payload")
          => (ret.m # Nil /\ Len(ret.m.payload) = ret.m.payloadLength)

---------------------------------------------------------------------------
(* The AAC codec of package flv: the body of an FLV audio tag.             *)

errDataNotEnough == "Data not enough"

RECURSIVE Or(_, _)
\* a | b of two bytes
Or(a, b) ==
    IF a = 0 THEN b
    ELSE IF b = 0 THEN a
    ELSE 2 * Or(a \div 2, b \div 2) + (IF a % 2 = 1 \/ b % 2 = 1 THEN 1 ELSE 0)

\* aacCodec.Encode
Encode(soundFormat, soundRate, soundSize, soundType, trait, frame) ==
    <<Or(Or(ShlU8(Byte(soundFormat), 4), ShlU8(Byte(soundRate), 2)),
         Or(ShlU8(Byte(soundSize), 1), Byte(soundType))),
      Byte(trait)>> \o frame

\* A Decode that takes the sound rate without masking it to 2 bits.
DecodeUnmasked(tag) ==
    IF Len(tag) < 2
    THEN [err |-> errDataNotEnough, soundFormat |-> 0, soundRate |-> 0,
          soundSize |-> 0, soundType |-> 0, trait |-> 0, frame |-> <<>>]
    ELSE [err |-> "",
          soundFormat |-> (tag[1] \div 16) % 16,
          soundRate |-> tag[1] \div 4,
          soundSize |-> (tag[1] \div 2) % 2,
          soundType |-> tag[1] % 2,
          trait |-> tag[2],
          frame |-> Drop(tag, 2)]

\* aacCodec.Decode
Decode(tag) ==
    IF Len(tag) < 2
    THEN [err |-> errDataNotEnough, soundFormat |-> 0, soundRate |-> 0,
          soundSize |-> 0, soundType |-> 0, trait |-> 0, frame |-> <<>>]
    ELSE [err |-> "",
          soundFormat |-> (tag[1] \div 16) % 16,
          soundRate |-> (tag[1] \div 4) % 4,
          soundSize |-> (tag[1] \div 2) % 2,
          soundType |-> tag[1] % 2,
          trait |-> tag[2],
          frame |-> Drop(tag, 2)]

\* the trait bytes and the frames of the caller
TraitChoices == {0, 1, 2, 255}
FrameChoices == {<<>>, <<18>>, <<18, 16>>, <<33, 0, 73, 144, 2>>}

\* the tags of fewer than 2 bytes, and some of 2 bytes
ShortTags == {<<>>} \cup {<<b>> : b \in {0, 175, 255}}
                 \cup {<<b, 1>> : b \in {0, 175, 255}}

\* tag, err := codec.Encode(soundFormat, soundRate, soundSize, soundType,
\* trait, frame)
AacEncode ==
    /\ call.op = "none"
    /\ \E soundFormat \in 0..15, soundRate \in 0..3, soundSize \in 0..1,
          soundType \in 0..1, trait \in TraitChoices, frame \in FrameChoices :
          call' = [op |-> "Encode",
                   data |-> Encode(soundFormat, soundRate, soundSize,
                                   soundType, trait, frame),
                   err |-> "",
                   res |-> [soundFormat |-> soundFormat,
                            soundRate |-> soundRate, soundSize |-> soundSize,
                            soundType |-> soundType, trait |-> trait,
                            frame |-> frame]]
    /\ UNCHANGED <<rbuf, closed, hs, pending, amf, flv, krps>>
    /\ UNCHANGED protocolVars

\* codec.Decode(tag) of the tag Encode has returned; res keeps what was
\* encoded (of) besides what Decode returns
AacDecode ==
    /\ call.op = "Encode"
    /\ \E r \in {Decode(call.data)} :
          call' = [op |-> "Decode", data |-> call.data, err |-> r.err,
                   res |-> [of |-> call.res, out |-> r]]
    /\ UNCHANGED <<rbuf, closed, hs, pending, amf, flv, krps>>
    /\ UNCHANGED protocolVars

\* codec.Decode(tag) of a tag of at most 2 bytes
AacDecodeShort ==
    /\ call.op = "none"
    /\ \E tag \in ShortTags :
          \E r \in {Decode(tag)} :
              call' = [op |-> "Decode", data |-> tag, err |-> r.err,
                       res |-> [of |-> Nil, out |-> r]]
    /\ UNCHANGED <<rbuf, closed, hs, pending, amf, flv, krps>>
    /\ UNCHANGED protocolVars

NextAac ==
    \/ AacEncode
    \/ AacDecode
    \/ AacDecodeShort

SpecAac == Init /\ [][NextAac]_vars

\* C32: for soundFormat in 0..15, soundRate in 0..3, soundSize in 0..1,
\* soundType in 0..1, any trait byte and any frame, Decode of what Encode
\* gave returns the same six values, and the encoded tag is 2 bytes longer
\* than the frame; Decode of a tag shorter than 2 bytes returns the error
\* that the data is not enough.
C32_AacRoundTrip ==
    /\ call.op = "Encode" => Len(call.data) = Len(call.res.frame) + 2
    /\ (call.op = "Decode" /\ call.res.of # Nil) =>
          /\ call.err = ""
          /\ call.res.out.soundFormat = call.res.of.soundFormat
          /\ call.res.out.soundRate = call.res.of.soundRate
          /\ call.res.out.soundSize = call.res.of.soundSize
          /\ call.res.out.soundType = call.res.of.soundType
          /\ call.res.out.trait = call.res.of.trait
          /\ call.res.out.frame = call.res.of.frame
    /\ (call.op = "Decode" /\ Len(call.data) < 2) =>
          call.err = errDataNotEnough

\* an AAC raw frame of 2 bytes, 44 kHz 16 bit stereo (tag af 01 12 10), has
\* been encoded and decoded
C32_Witness ==
    /\ call.op = "Decode"
    /\ call.data = <<175, 1, 18, 16>>
    /\ call.res.of # Nil
    /\ call.res.of.soundFormat = 10
    /\ call.res.out.soundFormat = 10
    /\ call.res.out.soundRate = 3
    /\ call.res.out.frame = <<18, 16>>

---------------------------------------------------------------------------
(* Two tasks on one Protocol: a writer in WritePacket(Connect) and a       *)
(* reader in ReadMessage and DecodeMessage.  The writer's position is      *)
(* call.op: "none" before writeMessage, "writeMessage" once its flush has  *)
(* handed the bytes to the transport, "onPacketWriten" at the end; the     *)
(* packet is call.res.  The peer answers what it has received.             *)

\* how many messages the peer sends, the _result being the last
MaxPeerMessages == 3

\* the Connect packets of the writer
TaskPackets == {Connect(Number1, Text(21)), Connect(Number1, Text(5))}

\* the _result of the peer for transaction 1.0
ResultChoices ==
    { Msg(0, MessageTypeAMF0Command, 0, 3,
          ResponsePayload(commandResult, Number1, n)) : n \in {6, 40} }

\* what the peer sends of its own accord
AnnounceChoices ==
    { Msg(0, MessageTypeWindowAcknowledgementSize, 0, 2,
          BigEndianPutUint32(2500000)),
      Msg(0, MessageTypeSetPeerBandwidth, 0, 2,
          BigEndianPutUint32(2500000) \o <<2>>) }

InitTasks ==
    /\ rbuf = <<>>
    /\ closed = FALSE
    /\ wbuf = <<>>
    /\ chunks = <<>>
    /\ inChunkSize = defaultChunkSize
    /\ outChunkSize = defaultChunkSize
    /\ transactions = <<>>
    /\ crashed = FALSE
    /\ ret = NoRet
    /\ sent = <<>>
    /\ peerChunkSize = defaultChunkSize
    /\ nops = 0
    /\ hs = NoHandshake
    /\ pending = NoPending
    /\ amf = NoAmf
    /\ flv = NoFlv
    /\ krps = NoKrps
    /\ \E pkt \in TaskPackets : call = [NoCall EXCEPT !.res = pkt]

\* the writer, in WritePacket: v.writeMessage(m) up to the return of
\* v.w.Flush()
WriterWriteMessage ==
    /\ ~crashed
    /\ call.op = "none"
    /\ wbuf' = wbuf \o writeMessage(PacketMessage(call.res, 1), outChunkSize)
    /\ call' = [call EXCEPT !.op = "writeMessage"]
    /\ UNCHANGED <<rbuf, closed, chunks, inChunkSize, outChunkSize,
                   transactions, crashed, ret, sent, peerChunkSize, nops>>
    /\ UNCHANGED <<hs, pending, amf, flv, krps>>

\* the writer, in WritePacket: v.onPacketWriten(m, pkt)
WriterOnPacketWriten ==
    /\ ~crashed
    /\ call.op = "writeMessage"
    /\ transactions' = onPacketWriten(call.res, transactions)
    /\ call' = [call EXCEPT !.op = "onPacketWriten"]
    /\ UNCHANGED <<rbuf, closed, wbuf, chunks, inChunkSize, outChunkSize,
                   crashed, ret, sent, peerChunkSize, nops>>
    /\ UNCHANGED <<hs, pending, amf, flv, krps>>

\* The peer sends the _result once the bytes of the Connect have reached
\* it, and nothing after it.
PeerResult ==
    /\ ~closed /\ ~crashed
    /\ wbuf # <<>>
    /\ nops < MaxPeerMessages
    /\ \E m \in ResultChoices :
          /\ rbuf' = rbuf \o writeMessage(m, peerChunkSize)
          /\ sent' = Append(sent, m)
    /\ nops' = MaxPeerMessages
    /\ UNCHANGED <<closed, wbuf, chunks, inChunkSize, outChunkSize,
                   transactions, crashed, ret, peerChunkSize>>
    /\ UNCHANGED elsewhere

\* The peer sends a message of its own accord.
PeerAnnounce ==
    /\ ~closed /\ ~crashed
    /\ nops < MaxPeerMessages
    /\ \E m \in AnnounceChoices :
          /\ rbuf' = rbuf \o writeMessage(m, peerChunkSize)
          /\ sent' = Append(sent, m)
    /\ nops' = nops + 1
    /\ UNCHANGED <<closed, wbuf, chunks, inChunkSize, outChunkSize,
                   transactions, crashed, ret, peerChunkSize>>
    /\ UNCHANGED elsewhere

NextTasks ==
    \/ WriterWriteMessage
    \/ WriterOnPacketWriten
    \/ PeerResult
    \/ PeerAnnounce
    \/ CallReadMessage
    \/ CallDecodeMessage

SpecTasks == InitTasks /\ [][NextTasks]_vars

\* C34: with a writer in WritePacket(Connect), a reader in ReadMessage and
\* DecodeMessage on the same Protocol and a peer that sends _result with
\* transaction id 1.0 only after it has received the bytes of the Connect,
\* the reader finds the entry of the transaction under every interleaving:
\* DecodeMessage never fails with "No matched request" for that response.
C34_ConcurrentConnect ==
    (ret.op = "DecodeMessage" /\ ret.m \in ResultChoices)
        => ret.err # NoMatchedRequest

---------------------------------------------------------------------------
(* Two Protocols over a pipe, A writing packets and messages and B         *)
(* reading them.  peerChunkSize is the output chunk size of A,             *)
(* inChunkSize the input chunk size of B, rbuf the pipe.                   *)

\* the chunk sizes A announces
AnnouncedSizes == {0, 2, 64, 200, 4096}

\* the messages A writes: payloads of 1, 3, 100 and 130 bytes
SenderMessages == { Msg(0, 9, 1, 5, Pattern(n, 0)) : n \in {1, 3, 100, 130} }

\* A.WritePacket(pkt, 0) for a SetChunkSize pkt
SenderWritePacket ==
    /\ ~closed /\ ~crashed
    /\ nops < MaxPeerWrites
    /\ \E n \in AnnouncedSizes :
          \E w \in {WritePacket([NewSetChunkSize EXCEPT !.ChunkSize = n], 0,
                                peerChunkSize, <<>>, TRUE)} :
              /\ rbuf' = rbuf \o w.bytes
              /\ sent' = Append(sent, w.m)
    /\ nops' = nops + 1
    /\ UNCHANGED <<closed, wbuf, chunks, inChunkSize, outChunkSize,
                   transactions, crashed, ret, peerChunkSize>>
    /\ UNCHANGED elsewhere

\* A.writeMessage(m)
SenderWriteMessage ==
    /\ ~closed /\ ~crashed
    /\ nops < MaxPeerWrites
    /\ \E m \in SenderMessages :
          /\ rbuf' = rbuf \o writeMessage(m, peerChunkSize)
          /\ sent' = Append(sent, m)
    /\ nops' = nops + 1
    /\ UNCHANGED <<closed, wbuf, chunks, inChunkSize, outChunkSize,
                   transactions, crashed, ret, peerChunkSize>>
    /\ UNCHANGED elsewhere

NextPipe ==
    \/ SenderWritePacket
    \/ SenderWriteMessage
    \/ CallReadMessage

SpecPipe == Init /\ [][NextPipe]_vars

\* C35: if A sends a SetChunkSize(n) packet with n different from 128 to B
\* through WritePacket and afterwards a message whose payload is longer
\* than min(128, n), ReadMessage of B returns that message with the same
\* payload: the chunk size A writes with and the chunk size B reads with
\* stay in agreement after a SetChunkSize.
C35_ChunkSizeAgreement ==
    (/\ ret.op = "ReadMessage" /\ ret.expect # Nil
     /\ ret.expect.messageType # MessageTypeSetChunkSize
     /\ inChunkSize # defaultChunkSize
     /\ Len(ret.expect.payload) > Min(defaultChunkSize, inChunkSize))
       => /\ ret.err = ""
          /\ ret.m # Nil
          /\ ret.m.payload = ret.expect.payload
          /\ peerChunkSize = inChunkSize


\* C37: in every reachable state the input chunk size is at least 1: a
\* SetChunkSize message that carries 0 does not set it to 0, so every chunk
\* read for a partial message brings at least one payload byte.
C37_ChunkSizePositive ==
    /\ inChunkSize # 0
    /\ (ret.op = "ReadMessage" /\ ret.info.stage = "payload"
          /\ ret.info.left > 0) => ret.info.size >= 1

\* C36: for a message with an empty payload writeMessage still emits one
\* Type0 chunk header, with payload length 0, so that ReadMessage of the
\* peer returns one message of no payload, of the same type and stream id,
\* for every message written.
C36_EmptyPayload ==
    /\ (ret.op = "none" /\ sent # <<>> /\ Head(sent).payload = <<>>) =>
          /\ Len(rbuf) >= 12
          /\ rbuf[1] \div 64 = formatType0
          /\ SubSeq(rbuf, 5, 7) = <<0, 0, 0>>
    /\ (ret.op = "ReadMessage" /\ ret.expect # Nil
          /\ ret.expect.payload = <<>>) =>
          /\ ret.err = ""
          /\ ret.m # Nil
          /\ ret.m.payload = <<>>
          /\ ret.m.messageType = ret.expect.messageType
          /\ ret.m.streamID = ret.expect.streamID


RECURSIVE objectBaseTaken(_, _)
\* the bytes of p that the loop of objectBase.unmarshal passes over
\* (p = p[u.Size():], p = p[1:] at the terminator, p = p[a.Size():])
objectBaseTaken(p, eof) ==
    IF Len(p) = 0 THEN 0
    ELSE LET u == amf0UTF8Unmarshal(p)
             p1 == Drop(p, 2 + Len(u.v))
             d == Discovery(p1)
         IN  IF u.err # "" \/ d.err # "" THEN 0
             ELSE IF eof /\ Len(u.v) = 0 /\ d.a.marker = markerObjectEnd
             THEN 2 + 1
             ELSE IF UnmarshalBinary(d.a, p1).err # "" THEN 2 + Len(u.v)
             ELSE (2 + Len(u.v)) + Size(UnmarshalBinary(d.a, p1).v)
                    + objectBaseTaken(
                          Drop(p1, Size(UnmarshalBinary(d.a, p1).v)), eof)

\* the bytes of data that Object.UnmarshalBinary passes over: the marker,
\* the properties and the terminator
Occupied(data) == 1 + objectBaseTaken(Drop(data, 1), TRUE)

\* C38: after Object.UnmarshalBinary(data) returns without error, Size() is
\* the number of bytes of data that the object occupies up to and including
\* its terminator 00 00 09, also when the input repeats a key or ends
\* without a terminator; so a caller that advances by Size() stays inside
\* the input and lands on the first byte after the object.
C38_ObjectSize ==
    (call.op = "UnmarshalBinary" /\ call.err = ""
       /\ call.data[1] = markerObject) =>
       /\ Size(call.res) = Occupied(call.data)
       /\ Size(call.res) <= Len(call.data)


---------------------------------------------------------------------------
(* A krps with its background task.  call.op is where the goroutine of     *)
(* Start is: "none" before Start, "sample" before its call of v.sample(),  *)
(* "sleep" before time.Sleep, "done" after it has returned.                *)

\* krps.Start: the go statement and v.started = true
KrpsStart ==
    /\ call.op = "none"
    /\ ~krps.closed
    /\ call' = [NoCall EXCEPT !.op = "sample"]
    /\ krps' = [krps EXCEPT !.started = TRUE, !.op = "Start"]
    /\ UNCHANGED <<rbuf, closed, hs, pending, amf, flv>>
    /\ UNCHANGED protocolVars

\* the goroutine of Start calls v.sample(): krpsClosed when closed, and the
\* goroutine returns; v.doSample(time.Now()) otherwise
TaskSample ==
    /\ call.op = "sample"
    /\ IF krps.closed
       THEN /\ call' = [call EXCEPT !.op = "done"]
            /\ krps' = [krps EXCEPT !.op = "krpsClosed"]
       ELSE /\ call' = [call EXCEPT !.op = "sleep"]
            /\ \E after \in {doSample(krps, krps.now)} :
                  krps' = [after EXCEPT !.op = "doSample",
                                        !.seen = Seen(krps, after)]
    /\ UNCHANGED <<rbuf, closed, hs, pending, amf, flv>>
    /\ UNCHANGED protocolVars

\* the goroutine of Start sleeps 10 seconds; the function literal ends there
TaskSleep ==
    /\ call.op = "sleep"
    /\ krps.ticks < MaxTicks
    /\ call' = [call EXCEPT !.op = "done"]
    /\ krps' = [krps EXCEPT !.now = @ + 10 * Second, !.ticks = @ + 1,
                            !.op = "Sleep"]
    /\ UNCHANGED <<rbuf, closed, hs, pending, amf, flv>>
    /\ UNCHANGED protocolVars

\* krps.Close
KrpsClose ==
    /\ ~krps.closed
    /\ krps' = [krps EXCEPT !.closed = TRUE, !.started = FALSE,
                            !.op = "Close"]
    /\ UNCHANGED <<rbuf, closed, hs, pending, amf, flv, call>>
    /\ UNCHANGED protocolVars

NextStart ==
    \/ SourceServe
    \/ ClockTick
    \/ KrpsStart
    \/ TaskSample
    \/ TaskSleep
    \/ KrpsClose

\* a goroutine that can run is run
SpecStart ==
    InitKrps /\ [][NextStart]_vars /\ WF_vars(TaskSample) /\ WF_vars(TaskSleep)

\* the count has risen since the 10 s window was last sampled or initialised
\* and 10 seconds have passed
Rising ==
    /\ krps.started /\ ~krps.closed
    /\ krps.seen # Nil
    /\ krps.source > krps.seen.r10s.count
    /\ krps.now >= krps.seen.r10s.at + 10 * Second

\* C39: after Start() and until Close() the background task of a krps
\* samples the source again and again, about every 10 seconds, so that
\* Rps10s eventually becomes non-zero when the request count of the source
\* keeps increasing; after Close() no further sample changes the windows.
C39_BackgroundTask ==
    /\ []((krps.started /\ ~krps.closed) => call.op \in {"sample", "sleep"})
    /\ Rising ~> (krps.closed \/ krps.r10s.rps # Rate(0, 1))
    /\ [][krps.closed =>
             /\ krps'.r10s = krps.r10s
             /\ krps'.r30s = krps.r30s
             /\ krps'.r300s = krps.r300s]_vars

=============================================================================
